---- MODULE Spec2Model ----
(***************************************************************************)
(* teleterm: keystroke encoding protocol of backend_send_keys, as          *)
(* implemented by the Accessibility-Tree backend (backend_macos.c) and the *)
(* Multiplexer backend (backend_tmux.c), with the shared emoji lexer of    *)
(* bot_common.c; the command layer of handle_request (bot_common.c) over   *)
(* the backends' session enumeration, liveness check and capture; and the  *)
(* threads that run handle_request under RequestLock.                      *)
(*                                                                         *)
(* A C string is a sequence of bytes (1..255) followed by a NUL.  A        *)
(* pointer into the string is modelled by the suffix of the string that    *)
(* starts at the pointed byte, so p[k] of the C code is Byte(p, k).        *)
(***************************************************************************)
EXTENDS Integers, Sequences, FiniteSets, TLC

VARIABLES
    backend,        \* which backend_*.c is linked in: "macos" or "tmux"
    DangerMode,     \* bot_common.c: int DangerMode, set by main from its flags
    WeakSecurity,   \* bot_common.c: static int WeakSecurity, set by main
    owner,          \* the stored OWNER_KEY: the owner's id, 0 when none is stored
    Authenticated,  \* bot_common.c: static int Authenticated
    elapsed,        \* time(NULL) - LastActivity, in seconds
    OtpTimeout,     \* bot_common.c: static int OtpTimeout
    Connected,      \* bot_common.c: int Connected
    ConnectedId,    \* bot_common.c: char ConnectedId[128], a C string
    ConnectedPid,   \* bot_common.c: pid_t ConnectedPid
    ConnectedName,  \* bot_common.c: char ConnectedName[128]
    ConnectedTitle, \* bot_common.c: char ConnectedTitle[256]
    TermList,       \* bot_common.c: TermInfo *TermList; TermCount is its length
    listed,         \* history: TermList is the listing the operator was shown last
    RequestLock,    \* bot_common.c: the mutex; 0 when free, else its holder
    tpc,            \* position of each thread that calls handle_request
    screen,         \* substrate: the windows / panes that exist, in its order
    up,             \* substrate: TRUE iff it answers queries (window server, tmux server)
    request,        \* history: the request handled last
    reply,          \* history: the messages that request sent to the operator
    checks,         \* history: what backend_connected returned in that request
    pc,             \* position of the single request being served
    ret,            \* return value of backend_send_keys
    text,           \* argument of backend_send_keys
    add_newline,    \* locals of backend_send_keys ...
    p,
    len,
    mods,
    keycount,
    had_mods,
    last_was_nl,
    literal_start,  \* tmux only: start of the pending literal run
    literal_len,    \* tmux only: length of the pending literal run
    events,         \* history: the key-events emitted by the loop, in order
    consumed,       \* history: bytes consumed by each loop iteration
    sent,           \* substrate: the delivery calls made, in order
    trailing        \* history: TRUE iff the trailing Return was sent

vars == <<backend, DangerMode, WeakSecurity, owner, Authenticated, elapsed,
          OtpTimeout, Connected, ConnectedId, ConnectedPid, ConnectedName,
          ConnectedTitle, TermList, listed, RequestLock, tpc, screen, up, request,
          reply,
          checks, pc, ret, text, add_newline, p, len, mods,
          keycount, had_mods, last_was_nl, literal_start, literal_len,
          events, consumed, sent, trailing>>

locals == <<add_newline, p, len, mods, keycount, had_mods, last_was_nl,
            literal_start, literal_len>>

\* the Connection State and the Session Directory, with the request's history
command == <<Connected, ConnectedId, ConnectedPid, ConnectedName,
             ConnectedTitle, TermList, listed, request, reply, checks>>

\* the variables of one backend_send_keys call
call == <<pc, ret, text, trailing, locals, events, consumed, sent>>

\* the mutex and the threads
threads == <<RequestLock, tpc>>

\* what main sets from its command line
flags == <<DangerMode, WeakSecurity>>

\* the state of the authentication gate
auth == <<owner, Authenticated, elapsed, OtpTimeout>>

(***************************************************************************)
(* Bounds and the inputs drawn for backend_send_keys.                      *)
(***************************************************************************)
MaxFrags == 3

\* UTF-8 encodings of the markers, and the pieces they are made of.
RedHeart    == <<226, 157, 164>>          \* E2 9D A4
VarSel      == <<239, 184, 143>>          \* EF B8 8F
BlueHeart   == <<240, 159, 146, 153>>     \* F0 9F 92 99
GreenHeart  == <<240, 159, 146, 154>>     \* F0 9F 92 9A
YellowHeart == <<240, 159, 146, 155>>     \* F0 9F 92 9B
PurpleHeart == <<240, 159, 146, 156>>     \* F0 9F 92 9C
OrangeHeart == <<240, 159, 167, 161>>     \* F0 9F A7 A1
TruncHeart  == <<240, 159, 146>>          \* F0 9F 92 (no fourth byte)
TruncRed    == <<226, 157>>               \* E2 9D (no third byte)
Bsl         == <<92>>                     \* '\\'
ChN         == <<110>>                    \* 'n'
ChT         == <<116>>                    \* 't'
ChC         == <<99>>                     \* 'c'

Fragments == {RedHeart, VarSel, BlueHeart, GreenHeart, YellowHeart,
              PurpleHeart, OrangeHeart, Bsl, ChN, ChT, ChC}

RECURSIVE FragStrings(_)
FragStrings(n) ==
    IF n = 0 THEN {<<>>}
    ELSE LET prev == FragStrings(n - 1)
         IN  prev \cup {s \o f : s \in prev, f \in Fragments}

\* Inputs of the testable properties that need more than MaxFrags pieces, and
\* truncated markers.
Examples == {RedHeart \o BlueHeart \o <<120, 121>>,               \* C-M-x y
             RedHeart \o VarSel \o ChC \o PurpleHeart \o PurpleHeart,
             GreenHeart \o RedHeart \o YellowHeart \o ChC \o ChC,
             RedHeart \o OrangeHeart \o ChC \o ChC \o PurpleHeart,
             <<104, 105>>,                                         \* "hi"
             TruncRed, TruncRed \o ChC, TruncRed \o PurpleHeart,
             TruncHeart, TruncHeart \o ChC, TruncHeart \o PurpleHeart,
             TruncHeart \o Bsl \o ChN}

Inputs == FragStrings(MaxFrags) \cup Examples

(***************************************************************************)
(* C strings and pointers.                                                 *)
(***************************************************************************)
\* s[k] of the C code for a pointer s: the NUL terminator follows the last byte.
Byte(s, k) == IF k + 1 \in 1..Len(s) THEN s[k + 1] ELSE 0

\* s + n
Advance(s, n) == SubSeq(s, n + 1, Len(s))

\* the first n bytes at s
Take(s, n) == SubSeq(s, 1, n)

(***************************************************************************)
(* UTF-8 emoji parsing (bot_common.c).                                     *)
(***************************************************************************)
\* match_red_heart that does not know the variation selector
match_red_heart_short(s, remaining) ==
    IF remaining >= 3 /\ Byte(s, 0) = 226 /\ Byte(s, 1) = 157 /\ Byte(s, 2) = 164
    THEN 3
    ELSE 0

\* Match red heart (E2 9D A4, optionally followed by EF B8 8F).
match_red_heart(s, remaining) ==
    IF remaining >= 3 /\ Byte(s, 0) = 226 /\ Byte(s, 1) = 157 /\ Byte(s, 2) = 164
    THEN IF remaining >= 6 /\ Byte(s, 3) = 239 /\ Byte(s, 4) = 184 /\ Byte(s, 5) = 143
         THEN 6
         ELSE 3
    ELSE 0

\* match_colored_heart that also swallows a purple heart (9C)
match_colored_heart_purple(s, remaining) ==
    IF remaining >= 4 /\ Byte(s, 0) = 240 /\ Byte(s, 1) = 159 /\ Byte(s, 2) = 146
    THEN CASE Byte(s, 3) = 153 -> [consumed |-> 4, heart |-> "B"]
           [] Byte(s, 3) = 154 -> [consumed |-> 4, heart |-> "G"]
           [] Byte(s, 3) = 155 -> [consumed |-> 4, heart |-> "Y"]
           [] Byte(s, 3) = 156 -> [consumed |-> 4, heart |-> "P"]
           [] OTHER            -> [consumed |-> 0, heart |-> "?"]
    ELSE [consumed |-> 0, heart |-> "?"]

\* Match colored hearts: blue (F0 9F 92 99), green (9A), yellow (9B).
\* heart is left unset ("?") when nothing matches.
match_colored_heart(s, remaining) ==
    IF remaining >= 4 /\ Byte(s, 0) = 240 /\ Byte(s, 1) = 159 /\ Byte(s, 2) = 146
    THEN CASE Byte(s, 3) = 153 -> [consumed |-> 4, heart |-> "B"]
           [] Byte(s, 3) = 154 -> [consumed |-> 4, heart |-> "G"]
           [] Byte(s, 3) = 155 -> [consumed |-> 4, heart |-> "Y"]
           [] OTHER            -> [consumed |-> 0, heart |-> "?"]
    ELSE [consumed |-> 0, heart |-> "?"]

\* match_orange_heart that is content with the first two bytes (F0 9F)
match_orange_heart_prefix(s, remaining) ==
    IF remaining >= 2 /\ Byte(s, 0) = 240 /\ Byte(s, 1) = 159
    THEN IF remaining >= 4 THEN 4 ELSE remaining
    ELSE 0

\* Match orange heart (F0 9F A7 A1).
match_orange_heart(s, remaining) ==
    IF remaining >= 4 /\ Byte(s, 0) = 240 /\ Byte(s, 1) = 159
                      /\ Byte(s, 2) = 167 /\ Byte(s, 3) = 161
    THEN 4
    ELSE 0

\* Match purple heart (F0 9F 92 9C).
match_purple_heart(s, remaining) ==
    IF remaining >= 4 /\ Byte(s, 0) = 240 /\ Byte(s, 1) = 159
                      /\ Byte(s, 2) = 146 /\ Byte(s, 3) = 156
    THEN 4
    ELSE 0

\* Check if string ends with purple heart.
ends_with_purple_heart(t) ==
    IF Len(t) >= 4
    THEN IF match_purple_heart(Advance(t, Len(t) - 4), 4) > 0 THEN 1 ELSE 0
    ELSE 0

\* The bytes a chain  s[0] == pat[1] && s[1] == pat[2] && ...  reads: C's &&
\* stops at the first byte that differs.
PrefixReads(s, pat) ==
    LET same == {j \in 0..Len(pat) : \A i \in 0..(j - 1) : Byte(s, i) = pat[i + 1]}
        k    == CHOOSE j \in same : \A j2 \in same : j2 <= j
    IN  IF k = Len(pat) THEN k ELSE k + 1

\* how many bytes at s match_red_heart reads: none unless remaining >= 3, and
\* the variation selector only after a red heart and when remaining >= 6
match_red_heart_reads(s, remaining) ==
    IF remaining >= 3
    THEN IF Take(s, 3) = RedHeart /\ remaining >= 6
         THEN 3 + PrefixReads(Advance(s, 3), VarSel)
         ELSE PrefixReads(s, RedHeart)
    ELSE 0

\* how many bytes at s match_colored_heart reads: s[3] only after F0 9F 92
match_colored_heart_reads(s, remaining) ==
    IF remaining >= 4
    THEN IF Take(s, 3) = TruncHeart THEN 4 ELSE PrefixReads(s, TruncHeart)
    ELSE 0

\* how many bytes at s match_orange_heart reads
match_orange_heart_reads(s, remaining) ==
    IF remaining >= 4 THEN PrefixReads(s, OrangeHeart) ELSE 0

(***************************************************************************)
(* Key-events and substrate calls.                                         *)
(***************************************************************************)
Modifiers == {"Ctrl", "Alt", "Cmd"}

NamedEv(name, m) == [kind |-> "named", name |-> name, ch |-> 0, mods |-> m]
CharEv(c, m)     == [kind |-> "char",  name |-> "",   ch |-> c, mods |-> m]

\* macOS virtual key codes
kVK_Return == 36
kVK_Tab    == 48
kVK_Escape == 53

\* send_key(pid, keycode, ch, mods): one key down/up pair posted to the process
send_key(keycode, ch, m) ==
    [call |-> "send_key", keycode |-> keycode, ch |-> ch, mods |-> m]

\* raise_window_by_id(pid, wid): its result is ignored by the caller
raise_window_by_id == [call |-> "raise_window", keycode |-> 0, ch |-> 0, mods |-> {}]

\* the "C-" / "M-" prefixes the tmux backend builds from mods (bit 1, bit 2)
tmux_prefix(m) ==
    (IF "Ctrl" \in m THEN <<"C-">> ELSE <<>>) \o (IF "Alt" \in m THEN <<"M-">> ELSE <<>>)

\* tmux send-keys -t pane key
tmux_send_key(prefix, name, ch) ==
    [call |-> "send_key", prefix |-> prefix, name |-> name, ch |-> ch, lit |-> <<>>]

\* tmux send-keys -t pane -l text
tmux_send_literal(t, n) ==
    [call |-> "send_literal", prefix |-> <<>>, name |-> "", ch |-> 0, lit |-> Take(t, n)]

(***************************************************************************)
(* The locals of one backend_send_keys call, as a record.                  *)
(***************************************************************************)
Cur == [p |-> p, len |-> len, mods |-> mods, keycount |-> keycount,
        had_mods |-> had_mods, last_was_nl |-> last_was_nl,
        literal_start |-> literal_start, literal_len |-> literal_len,
        events |-> events, consumed |-> consumed, sent |-> sent]

Become(n) ==
    \E v \in {n} :
        /\ p' = v.p
        /\ len' = v.len
        /\ mods' = v.mods
        /\ keycount' = v.keycount
        /\ had_mods' = v.had_mods
        /\ last_was_nl' = v.last_was_nl
        /\ literal_start' = v.literal_start
        /\ literal_len' = v.literal_len
        /\ events' = v.events
        /\ consumed' = v.consumed
        /\ sent' = v.sent

\* p += n; len -= n
Consume(st, n) ==
    [st EXCEPT !.p = Advance(@, n), !.len = @ - n, !.consumed = Append(@, n)]

\* if (mods) had_mods = 1
HadMods(st) == IF st.mods # {} THEN 1 ELSE st.had_mods

(***************************************************************************)
(* backend_macos.c: backend_send_keys                                      *)
(***************************************************************************)
\* int add_newline = !ends_with_purple_heart(text)
macos_add_newline(t) == IF ends_with_purple_heart(t) = 1 THEN 0 ELSE 1

\* macos_len that forgets to skip the marker
macos_len_nostrip(t, add_nl) == Len(t)

\* len = strlen(text); if (!add_newline && len >= 4) len -= 4
macos_len(t, add_nl) ==
    IF add_nl = 0 /\ Len(t) >= 4 THEN Len(t) - 4 ELSE Len(t)

\* the locals when the loop is entered without the window being raised
macos_enter_unraised(t) ==
    [p |-> t, len |-> macos_len(t, macos_add_newline(t)), mods |-> {},
     keycount |-> 0, had_mods |-> 0, last_was_nl |-> 0,
     literal_start |-> <<>>, literal_len |-> 0,
     events |-> <<>>, consumed |-> <<>>, sent |-> <<>>]

\* the locals when the loop is entered, after the window was raised
macos_enter(t) ==
    [p |-> t, len |-> macos_len(t, macos_add_newline(t)), mods |-> {},
     keycount |-> 0, had_mods |-> 0, last_was_nl |-> 0,
     literal_start |-> <<>>, literal_len |-> 0,
     events |-> <<>>, consumed |-> <<>>, sent |-> <<raise_window_by_id>>]

\* macos_red that falls through to last_was_nl = 0
macos_red_resetnl(st) ==
    Consume([st EXCEPT !.mods = @ \cup {"Ctrl"}, !.last_was_nl = 0],
            match_red_heart(st.p, st.len))

\* red heart: Ctrl modifier
macos_red(st) ==
    Consume([st EXCEPT !.mods = @ \cup {"Ctrl"}], match_red_heart(st.p, st.len))

\* macos_orange that sends a bare Return and leaves the modifiers pending
macos_orange_bare(st) ==
    Consume([st EXCEPT !.sent = Append(@, send_key(kVK_Return, 0, {})),
                       !.events = Append(@, NamedEv("Return", {})),
                       !.keycount = @ + 1,
                       !.last_was_nl = 1],
            match_orange_heart(st.p, st.len))

\* orange heart: Return with the pending modifiers
macos_orange(st) ==
    Consume([st EXCEPT !.sent = Append(@, send_key(kVK_Return, 0, st.mods)),
                       !.events = Append(@, NamedEv("Return", st.mods)),
                       !.had_mods = HadMods(st),
                       !.keycount = @ + 1,
                       !.last_was_nl = 1,
                       !.mods = {}],
            match_orange_heart(st.p, st.len))

\* macos_colored whose Escape carries the pending modifiers
macos_colored_escmods(st) ==
    LET m == match_colored_heart(st.p, st.len)
    IN  Consume(CASE m.heart = "Y" ->
                       [st EXCEPT !.sent = Append(@, send_key(kVK_Escape, 0, st.mods)),
                                  !.events = Append(@, NamedEv("Escape", st.mods)),
                                  !.keycount = @ + 1,
                                  !.had_mods = 1,
                                  !.last_was_nl = 0,
                                  !.mods = {}]
                  [] m.heart = "B" -> [st EXCEPT !.mods = @ \cup {"Alt"}]
                  [] m.heart = "G" -> [st EXCEPT !.mods = @ \cup {"Cmd"}]
                  [] OTHER -> st,
                m.consumed)

\* colored hearts: yellow = Escape now, blue = Alt, green = Cmd
macos_colored(st) ==
    LET m == match_colored_heart(st.p, st.len)
    IN  Consume(CASE m.heart = "Y" ->
                       [st EXCEPT !.sent = Append(@, send_key(kVK_Escape, 0, {})),
                                  !.events = Append(@, NamedEv("Escape", {})),
                                  !.keycount = @ + 1,
                                  !.had_mods = 1,
                                  !.last_was_nl = 0,
                                  !.mods = {}]
                  [] m.heart = "B" -> [st EXCEPT !.mods = @ \cup {"Alt"}]
                  [] m.heart = "G" -> [st EXCEPT !.mods = @ \cup {"Cmd"}]
                  [] OTHER -> st,
                m.consumed)

\* if (*p == '\\' && len > 1) with p[1] one of 'n', 't', '\\'
macos_is_escape(st) ==
    Byte(st.p, 0) = 92 /\ st.len > 1 /\ Byte(st.p, 1) \in {110, 116, 92}

\* the three backslash escapes (last_was_nl = 0 was executed just before)
macos_backslash(st) ==
    Consume(CASE Byte(st.p, 1) = 110 ->
                       [st EXCEPT !.sent = Append(@, send_key(kVK_Return, 0, st.mods)),
                                  !.events = Append(@, NamedEv("Return", st.mods)),
                                  !.had_mods = HadMods(st),
                                  !.keycount = @ + 1,
                                  !.last_was_nl = 1,
                                  !.mods = {}]
                  [] Byte(st.p, 1) = 116 ->
                       [st EXCEPT !.sent = Append(@, send_key(kVK_Tab, 0, st.mods)),
                                  !.events = Append(@, NamedEv("Tab", st.mods)),
                                  !.had_mods = HadMods(st),
                                  !.keycount = @ + 1,
                                  !.last_was_nl = 0,
                                  !.mods = {}]
                  [] Byte(st.p, 1) = 92 ->
                       [st EXCEPT !.sent = Append(@, send_key(0, 92, st.mods)),
                                  !.events = Append(@, CharEv(92, st.mods)),
                                  !.had_mods = HadMods(st),
                                  !.keycount = @ + 1,
                                  !.last_was_nl = 0,
                                  !.mods = {}],
            2)

\* macos_char that forgets mods = 0
macos_char_keepmods(st) ==
    Consume([st EXCEPT !.sent = Append(@, send_key(0, Byte(st.p, 0), st.mods)),
                       !.events = Append(@, CharEv(Byte(st.p, 0), st.mods)),
                       !.had_mods = HadMods(st),
                       !.keycount = @ + 1,
                       !.last_was_nl = 0],
            1)

\* regular character: send_key(pid, 0, *p, mods)
macos_char(st) ==
    Consume([st EXCEPT !.sent = Append(@, send_key(0, Byte(st.p, 0), st.mods)),
                       !.events = Append(@, CharEv(Byte(st.p, 0), st.mods)),
                       !.had_mods = HadMods(st),
                       !.keycount = @ + 1,
                       !.last_was_nl = 0,
                       !.mods = {}],
            1)

\* one iteration of while (len > 0)
macos_body(st) ==
    IF match_red_heart(st.p, st.len) > 0 THEN macos_red(st)
    ELSE IF match_orange_heart(st.p, st.len) > 0 THEN macos_orange(st)
    ELSE IF match_colored_heart(st.p, st.len).consumed > 0 THEN macos_colored(st)
    ELSE IF macos_is_escape(st) THEN macos_backslash(st)
    ELSE macos_char(st)

\* macos_trailing without the single-modified-keystroke exception
macos_trailing_always(add_nl, kc, hm, nl) ==
    add_nl # 0 /\ nl = 0

\* if (add_newline && !(keycount == 1 && had_mods) && !last_was_nl)
macos_trailing(add_nl, kc, hm, nl) ==
    add_nl # 0 /\ ~(kc = 1 /\ hm # 0) /\ nl = 0

\* after the loop: the trailing Return, if any
macos_finish(st, add_nl) ==
    IF macos_trailing(add_nl, st.keycount, st.had_mods, st.last_was_nl)
    THEN [st EXCEPT !.sent = Append(@, send_key(kVK_Return, 0, {}))]
    ELSE st

(***************************************************************************)
(* backend_tmux.c: backend_send_keys                                       *)
(***************************************************************************)
\* int add_newline = !ends_with_purple_heart(text)
tmux_add_newline(t) == IF ends_with_purple_heart(t) = 1 THEN 0 ELSE 1

\* tmux_len that forgets to skip the marker
tmux_len_nostrip(t, add_nl) == Len(t)

\* len = strlen(text); if (!add_newline && len >= 4) len -= 4
tmux_len(t, add_nl) ==
    IF add_nl = 0 /\ Len(t) >= 4 THEN Len(t) - 4 ELSE Len(t)

\* the locals when the loop is entered
tmux_enter(t) ==
    [p |-> t, len |-> tmux_len(t, tmux_add_newline(t)), mods |-> {},
     keycount |-> 0, had_mods |-> 0, last_was_nl |-> 0,
     literal_start |-> <<>>, literal_len |-> 0,
     events |-> <<>>, consumed |-> <<>>, sent |-> <<>>]

\* FLUSH_LITERAL(): literal_start = NULL is the empty suffix
FLUSH_LITERAL(st) ==
    IF st.literal_len > 0
    THEN [st EXCEPT !.sent = Append(@, tmux_send_literal(st.literal_start, st.literal_len)),
                    !.literal_start = <<>>,
                    !.literal_len = 0]
    ELSE st

\* a named key or a character sent with send-keys: "C-", "M-" and the key
\* when mods is set (had_mods = 1), the bare key otherwise
tmux_named(st, name, ch, nl) ==
    [st EXCEPT !.sent = Append(@, tmux_send_key(tmux_prefix(st.mods), name, ch)),
               !.events = Append(@, CASE name = ""      -> CharEv(ch, st.mods)
                                      [] name = "Enter" -> NamedEv("Return", st.mods)
                                      [] OTHER          -> NamedEv(name, st.mods)),
               !.had_mods = HadMods(st),
               !.keycount = @ + 1,
               !.last_was_nl = nl,
               !.mods = {}]

\* red heart: Ctrl modifier (mods |= 1)
tmux_red(st) ==
    Consume([FLUSH_LITERAL(st) EXCEPT !.mods = @ \cup {"Ctrl"}],
            match_red_heart(st.p, st.len))

\* the orange heart without the flush of the literal run before its key
tmux_orange_unflushed(st) ==
    Consume(tmux_named(st, "Enter", 0, 1),
            match_orange_heart(st.p, st.len))

\* orange heart: Enter key
tmux_orange(st) ==
    Consume(tmux_named(FLUSH_LITERAL(st), "Enter", 0, 1),
            match_orange_heart(st.p, st.len))

\* colored hearts with the blue one skipped as the green one is
tmux_colored_noalt(st) ==
    LET m == match_colored_heart(st.p, st.len)
        f == FLUSH_LITERAL(st)
    IN  Consume(CASE m.heart = "Y" ->
                       [f EXCEPT !.sent = Append(@, tmux_send_key(<<>>, "Escape", 0)),
                                 !.events = Append(@, NamedEv("Escape", {})),
                                 !.keycount = @ + 1,
                                 !.had_mods = 1,
                                 !.last_was_nl = 0,
                                 !.mods = {}]
                  [] OTHER -> f,
                m.consumed)

\* colored hearts: yellow = Escape now, blue = Alt (mods |= 2), green = skipped
tmux_colored(st) ==
    LET m == match_colored_heart(st.p, st.len)
        f == FLUSH_LITERAL(st)
    IN  Consume(CASE m.heart = "Y" ->
                       [f EXCEPT !.sent = Append(@, tmux_send_key(<<>>, "Escape", 0)),
                                 !.events = Append(@, NamedEv("Escape", {})),
                                 !.keycount = @ + 1,
                                 !.had_mods = 1,
                                 !.last_was_nl = 0,
                                 !.mods = {}]
                  [] m.heart = "B" -> [f EXCEPT !.mods = @ \cup {"Alt"}]
                  [] m.heart = "G" -> f
                  [] OTHER -> f,
                m.consumed)

\* if (*p == '\\' && len > 1) with p[1] one of 'n', 't', '\\'
tmux_is_escape(st) ==
    Byte(st.p, 0) = 92 /\ st.len > 1 /\ Byte(st.p, 1) \in {110, 116, 92}

\* the three backslash escapes (last_was_nl = 0 was executed just before)
tmux_backslash(st) ==
    LET f == FLUSH_LITERAL(st)
    IN  Consume(CASE Byte(st.p, 1) = 110 -> tmux_named(f, "Enter", 0, 1)
                  [] Byte(st.p, 1) = 116 -> tmux_named(f, "Tab", 0, 0)
                  [] Byte(st.p, 1) = 92 ->
                       IF f.mods # {}
                       THEN tmux_named(f, "", 92, 0)
                       ELSE [f EXCEPT !.sent = Append(@, tmux_send_literal(<<92>>, 1)),
                                      !.events = Append(@, CharEv(92, {})),
                                      !.keycount = @ + 1,
                                      !.last_was_nl = 0,
                                      !.mods = {}],
                2)

\* regular character: a modified key, or one more byte of the literal run
tmux_char(st) ==
    IF st.mods # {}
    THEN Consume(tmux_named(FLUSH_LITERAL(st), "", Byte(st.p, 0), 0), 1)
    ELSE Consume([st EXCEPT !.literal_start = IF st.literal_len = 0 THEN st.p ELSE @,
                            !.literal_len = @ + 1,
                            !.events = Append(@, CharEv(Byte(st.p, 0), {})),
                            !.keycount = @ + 1,
                            !.last_was_nl = 0],
                 1)

\* one iteration of while (len > 0)
tmux_body(st) ==
    IF match_red_heart(st.p, st.len) > 0 THEN tmux_red(st)
    ELSE IF match_orange_heart(st.p, st.len) > 0 THEN tmux_orange(st)
    ELSE IF match_colored_heart(st.p, st.len).consumed > 0 THEN tmux_colored(st)
    ELSE IF tmux_is_escape(st) THEN tmux_backslash(st)
    ELSE tmux_char(st)

\* tmux_trailing that takes every single keystroke for a chord
tmux_trailing_single(add_nl, kc, hm, nl) ==
    add_nl # 0 /\ ~(kc = 1) /\ nl = 0

\* if (add_newline && !(keycount == 1 && had_mods) && !last_was_nl)
tmux_trailing(add_nl, kc, hm, nl) ==
    add_nl # 0 /\ ~(kc = 1 /\ hm # 0) /\ nl = 0

\* after the loop: flush the literal run, then the trailing Enter, if any
tmux_finish(st, add_nl) ==
    LET f == FLUSH_LITERAL(st)
    IN  IF tmux_trailing(add_nl, st.keycount, st.had_mods, st.last_was_nl)
        THEN [f EXCEPT !.sent = Append(@, tmux_send_key(<<>>, "Enter", 0))]
        ELSE f

(***************************************************************************)
(* The substrate: the windows (macOS) or panes (tmux) that exist.  wid is  *)
(* the CGWindowID or the number of the pane id, owner the application or   *)
(* the session:window.pane name, text the bytes the terminal shows (what   *)
(* tmux capture-pane prints), tree the accessibility element tree of the   *)
(* window: role, value (bytes, NUL padding included; empty when the        *)
(* element has no value) and children of every element.                    *)
(***************************************************************************)
MaxOnScreen == 2

Element(role, value, children) ==
    [role |-> role, value |-> value, children |-> children]

\* a terminal window whose text area, inside a scroll area, holds the bytes
\* given
TerminalTree(value) ==
    Element("AXWindow", <<>>,
            <<Element("AXScrollArea", <<>>, <<Element("AXTextArea", value, <<>>)>>)>>)

WinA == [wid |-> 11, pid |-> 7, layer |-> 0, owner |-> "Terminal",
         title |-> "vim", text |-> <<97, 10, 10>>,
         width |-> 800, height |-> 600, missing |-> {},
         tree |-> TerminalTree(<<97, 0, 10, 10, 0>>)]
WinB == [wid |-> 12, pid |-> 7, layer |-> 0, owner |-> "Terminal",
         title |-> "", text |-> <<98, 32, 10>>,
         width |-> 800, height |-> 600, missing |-> {},
         tree |-> TerminalTree(<<98, 32, 10>>)]
WinE == [wid |-> 13, pid |-> 7, layer |-> 0, owner |-> "Terminal",
         title |-> "top", text |-> <<>>,
         width |-> 800, height |-> 600, missing |-> {},
         tree |-> TerminalTree(<<0, 0>>)]
WinC == [wid |-> 14, pid |-> 7, layer |-> 25, owner |-> "Terminal",
         title |-> "", text |-> <<32, 10>>,
         width |-> 800, height |-> 600, missing |-> {},
         tree |-> TerminalTree(<<32, 10, 0>>)]
WinD == [wid |-> 15, pid |-> 8, layer |-> 0, owner |-> "iTerm2",
         title |-> "zsh", text |-> <<100>>,
         width |-> 800, height |-> 600, missing |-> {},
         tree |-> TerminalTree(<<0, 100>>)]

Windows == {WinA, WinB, WinE, WinC, WinD}

RECURSIVE Arrangements(_)
Arrangements(n) ==
    IF n = 0 THEN {<<>>}
    ELSE LET shorter == Arrangements(n - 1)
         IN  shorter \cup {Append(q, w) : q \in shorter, w \in Windows}

\* what the substrate may show: up to MaxOnScreen different sessions in any order
Screens ==
    {q \in Arrangements(MaxOnScreen) :
        \A i, j \in 1..Len(q) : i # j => q[i].wid # q[j].wid}

(***************************************************************************)
(* Identities: snprintf("%u") and atoi of the macOS backend, "%N" of tmux. *)
(***************************************************************************)
RECURSIVE utoa(_)
utoa(n) == IF n < 10 THEN <<48 + n>> ELSE Append(utoa(n \div 10), 48 + (n % 10))

INT_MAX == 2147483647

\* the number of leading characters of s that are in set
span(s, set) == Cardinality({i \in 1..Len(s) : \A j \in 1..i : s[j] \in set})

\* acc with the decimal digits s[i..n] appended, -1 when that does not fit
\* an int
RECURSIVE digits_value(_, _, _, _)
digits_value(s, i, n, acc) ==
    IF i > n THEN acc
    ELSE IF acc > (INT_MAX - (s[i] - 48)) \div 10
         THEN -1
         ELSE digits_value(s, i + 1, n, acc * 10 + (s[i] - 48))

\* the value of the leading decimal digits, 0 when there are none, -1 when
\* it does not fit an int
atoi_from(s, acc) == digits_value(s, 1, span(s, 48..57), acc)

isspace(c) == c = 32 \/ c \in 9..13

skip_space(s) == Advance(s, span(s, {32} \cup (9..13)))

\* a sign and decimal digits.  What atoi returns for a number that does not
\* fit an int is not defined: a library that calls strtol returns -1 or 0,
\* others saturate or wrap.
atoi_signed(t) ==
    LET neg  == t # <<>> /\ t[1] = 45
        body == IF t # <<>> /\ t[1] \in {43, 45} THEN Tail(t) ELSE t
    IN  UNION {IF v = -1 THEN {-INT_MAX - 1, -1, 0, INT_MAX}
               ELSE {IF neg THEN -v ELSE v} : v \in {atoi_from(body, 0)}}

\* atoi: white space, then a sign and decimal digits
atoi_int(s) == UNION {atoi_signed(t) : t \in {skip_space(s)}}

\* atoi of a number that fits
atoi(s) == CHOOSE v \in atoi_int(s) : TRUE

\* #{pane_id}
pane_id(w) == <<37>> \o utoa(w.wid)

(***************************************************************************)
(* backend_list                                                            *)
(***************************************************************************)
TerminalApps == {"Terminal", "iTerm2", "iTerm", "Ghostty", "kitty", "Alacritty",
                 "Hyper", "Warp", "WezTerm", "Tabby"}

\* the bytes of the names of this model
Spell ==
       "Terminal" :> <<84, 101, 114, 109, 105, 110, 97, 108>>
    @@ "iTerm2" :> <<105, 84, 101, 114, 109, 50>>
    @@ "iTerm" :> <<105, 84, 101, 114, 109>>
    @@ "Ghostty" :> <<71, 104, 111, 115, 116, 116, 121>>
    @@ "kitty" :> <<107, 105, 116, 116, 121>>
    @@ "Alacritty" :> <<65, 108, 97, 99, 114, 105, 116, 116, 121>>
    @@ "Hyper" :> <<72, 121, 112, 101, 114>>
    @@ "Warp" :> <<87, 97, 114, 112>>
    @@ "WezTerm" :> <<87, 101, 122, 84, 101, 114, 109>>
    @@ "Tabby" :> <<84, 97, 98, 98, 121>>
    @@ "ghostty" :> <<103, 104, 111, 115, 116, 116, 121>>
    @@ "Hyperkey" :> <<72, 121, 112, 101, 114, 107, 101, 121>>
    @@ "Finder" :> <<70, 105, 110, 100, 101, 114>>

tolower(c) == IF c \in 65..90 THEN c + 32 ELSE c

\* strcasestr(hay, needle) finds needle in hay, whatever the case of the letters
strcasestr(hay, needle) ==
    \E i \in 1..(Len(hay) - Len(needle) + 1) :
        \A j \in 1..Len(needle) : tolower(hay[i + j - 1]) = tolower(needle[j])

is_terminal_app(name) ==
    IF \E app \in TerminalApps : strcasestr(Spell[name], Spell[app]) THEN 1 ELSE 0

\* an enumeration in which the danger flag lifts the layer filter too
RECURSIVE macos_windows_danger_layer(_)
macos_windows_danger_layer(scr) ==
    IF scr = <<>> THEN <<>>
    ELSE LET w == Head(scr)
             layer == IF "layer" \in w.missing THEN 0 ELSE w.layer
         IN  IF \/ "owner" \in w.missing
                \/ DangerMode = 0 /\ is_terminal_app(w.owner) = 0
                \/ "wid" \in w.missing \/ "pid" \in w.missing
                \/ DangerMode = 0 /\ layer # 0
                \/ "bounds" \in w.missing
                \/ w.width <= 50 \/ w.height <= 50
             THEN macos_windows_danger_layer(Tail(scr))
             ELSE <<[id |-> utoa(w.wid), pid |-> w.pid, name |-> w.owner,
                     title |-> w.title]>> \o macos_windows_danger_layer(Tail(scr))

\* the first loop of backend_list over the windows the window server reports
RECURSIVE macos_windows(_)
macos_windows(scr) ==
    IF scr = <<>> THEN <<>>
    ELSE LET w == Head(scr)
             layer == IF "layer" \in w.missing THEN 0 ELSE w.layer
         IN  IF \/ "owner" \in w.missing
                \/ DangerMode = 0 /\ is_terminal_app(w.owner) = 0
                \/ "wid" \in w.missing \/ "pid" \in w.missing
                \/ layer # 0
                \/ "bounds" \in w.missing
                \/ w.width <= 50 \/ w.height <= 50
             THEN macos_windows(Tail(scr))
             ELSE <<[id |-> utoa(w.wid), pid |-> w.pid, name |-> w.owner,
                     title |-> w.title]>> \o macos_windows(Tail(scr))

\* the entries one call accepts; none when CGWindowListCopyWindowInfo fails
macos_backend_list(scr) == IF up THEN macos_windows(scr) ELSE <<>>

\* one TermInfo per row of tmux list-panes; none when run_cmd fails
tmux_backend_list(scr) ==
    IF up
    THEN [i \in 1..Len(scr) |->
            [id |-> pane_id(scr[i]), pid |-> scr[i].pid, name |-> scr[i].owner,
             title |-> scr[i].title]]
    ELSE <<>>

backend_list(b, scr) ==
    IF b = "macos" THEN macos_backend_list(scr) ELSE tmux_backend_list(scr)

\* a backend_free_list that leaves the directory as it is
backend_free_list_kept(old) == old

\* backend_free_list(): free(TermList), TermCount = 0
backend_free_list(old) == <<>>

\* a call of backend_list(): backend_free_list(), then TermList[TermCount++]
\* is filled for every entry the call accepts
refresh_list(b, old, scr) == backend_free_list(old) \o backend_list(b, scr)

(***************************************************************************)
(* The command layer works on a record cs of the Connection State, the     *)
(* Session Directory and the history of the request being handled.         *)
(***************************************************************************)
Cmd == [Connected |-> Connected, ConnectedId |-> ConnectedId,
        ConnectedPid |-> ConnectedPid, ConnectedName |-> ConnectedName,
        ConnectedTitle |-> ConnectedTitle, TermList |-> TermList,
        listed |-> listed, reply |-> reply, checks |-> checks]

BecomeCmd(n) ==
    \E v \in {n} :
        /\ Connected' = v.Connected
        /\ ConnectedId' = v.ConnectedId
        /\ ConnectedPid' = v.ConnectedPid
        /\ ConnectedName' = v.ConnectedName
        /\ ConnectedTitle' = v.ConnectedTitle
        /\ TermList' = v.TermList
        /\ listed' = v.listed
        /\ reply' = v.reply
        /\ checks' = v.checks

\* a message to the operator: its fixed words, the listing and the terminal
\* text it carries
Msg(m, list, txt) == [msg |-> m, list |-> list, text |-> txt]

\* botSendMessage and its variants
Send(cs, m) == [cs EXCEPT !.reply = Append(@, m)]

\* disconnect that only lowers the flag
disconnect_flag_only(cs) == [cs EXCEPT !.Connected = 0]

\* Disconnect from current terminal session.
disconnect(cs) ==
    [cs EXCEPT !.Connected = 0, !.ConnectedId = <<>>, !.ConnectedPid = 0,
               !.ConnectedName = "", !.ConnectedTitle = ""]

(***************************************************************************)
(* backend_connected                                                       *)
(***************************************************************************)
\* the scan that lets the last same-process window win, not the first
RECURSIVE macos_scan_last(_, _, _, _, _)
macos_scan_last(scr, i, connected_wid, cpid, fallback_wid) ==
    IF i > Len(scr) THEN [found |-> 0, fallback_wid |-> fallback_wid]
    ELSE IF scr[i].wid = connected_wid
         THEN [found |-> 1, fallback_wid |-> fallback_wid]
         ELSE macos_scan_last(scr, i + 1, connected_wid, cpid,
                  IF scr[i].pid = cpid /\ scr[i].layer = 0
                  THEN scr[i].wid
                  ELSE fallback_wid)

\* the scan that stops at the first same-process window, exact match or not
RECURSIVE macos_scan_eager(_, _, _, _, _)
macos_scan_eager(scr, i, connected_wid, cpid, fallback_wid) ==
    IF i > Len(scr) THEN [found |-> 0, fallback_wid |-> fallback_wid]
    ELSE IF scr[i].wid = connected_wid
         THEN [found |-> 1, fallback_wid |-> fallback_wid]
         ELSE IF scr[i].pid = cpid /\ scr[i].layer = 0
              THEN [found |-> 0, fallback_wid |-> scr[i].wid]
              ELSE macos_scan_eager(scr, i + 1, connected_wid, cpid, fallback_wid)

\* the for loop over the on-screen windows, from window i on
RECURSIVE macos_scan(_, _, _, _, _)
macos_scan(scr, i, connected_wid, cpid, fallback_wid) ==
    IF i > Len(scr) THEN [found |-> 0, fallback_wid |-> fallback_wid]
    ELSE IF scr[i].wid = connected_wid
         THEN [found |-> 1, fallback_wid |-> fallback_wid]
         ELSE macos_scan(scr, i + 1, connected_wid, cpid,
                  IF scr[i].pid = cpid /\ fallback_wid = 0 /\ scr[i].layer = 0
                  THEN scr[i].wid
                  ELSE fallback_wid)

\* a check that takes the title of the substituted window along
macos_backend_connected_retitled(cs, scr) ==
    IF cs.Connected = 0 THEN [ret |-> 0, st |-> cs]
    ELSE LET r == macos_scan(scr, 1, atoi(cs.ConnectedId), cs.ConnectedPid, 0)
         IN  IF r.found = 0 /\ r.fallback_wid # 0
             THEN [ret |-> 1,
                   st |-> [cs EXCEPT !.ConnectedId = utoa(r.fallback_wid),
                                     !.ConnectedTitle =
                                         scr[CHOOSE i \in 1..Len(scr) :
                                                 scr[i].wid = r.fallback_wid].title]]
             ELSE [ret |-> r.found, st |-> cs]

\* ret is the return value, st the state it leaves
macos_backend_connected(cs, scr) ==
    IF cs.Connected = 0 THEN [ret |-> 0, st |-> cs]
    ELSE LET r == macos_scan(scr, 1, atoi(cs.ConnectedId), cs.ConnectedPid, 0)
         IN  IF r.found = 0 /\ r.fallback_wid # 0
             THEN [ret |-> 1, st |-> [cs EXCEPT !.ConnectedId = utoa(r.fallback_wid)]]
             ELSE [ret |-> r.found, st |-> cs]

\* a check that moves on to another pane of the same process
tmux_backend_connected_fallback(cs, scr) ==
    IF cs.Connected = 0 THEN [ret |-> 0, st |-> cs]
    ELSE IF \E i \in 1..Len(scr) : pane_id(scr[i]) = cs.ConnectedId
         THEN [ret |-> 1, st |-> cs]
         ELSE LET at == {i \in 1..Len(scr) : scr[i].pid = cs.ConnectedPid}
              IN  IF at = {} THEN [ret |-> 0, st |-> cs]
                  ELSE [ret |-> 1,
                        st  |-> [cs EXCEPT !.ConnectedId =
                                    pane_id(scr[CHOOSE i \in at : \A k \in at : i <= k])]]

\* tmux display-message -t ConnectedId -p '#{pane_id}' prints the pane id
\* when the pane exists and fails otherwise, as it does without a server
tmux_backend_connected(cs, scr) ==
    IF cs.Connected = 0 THEN [ret |-> 0, st |-> cs]
    ELSE [ret |-> IF up /\ \E i \in 1..Len(scr) : pane_id(scr[i]) = cs.ConnectedId
                  THEN 1 ELSE 0,
          st  |-> cs]

\* the call of backend_connected by handle_request, its result kept in checks
backend_connected(b, cs, scr) ==
    LET r == IF b = "macos" THEN macos_backend_connected(cs, scr)
                            ELSE tmux_backend_connected(cs, scr)
    IN  [ret |-> r.ret, st |-> [r.st EXCEPT !.checks = Append(@, r.ret)]]

(***************************************************************************)
(* backend_capture_text: the empty text stands for NULL                    *)
(***************************************************************************)
\* for (i = 0; i < used; i++) if (buf[i] != '\0') result = sdscatlen(...)
not_null(c) == c # 0

strip_nulls(buf) == SelectSeq(buf, not_null)

\* ax_read_value: the value without its null bytes, NULL when the element
\* has no value or nothing is left
ax_read_value(element) == strip_nulls(element.value)

TextRoles == {"AXTextArea", "AXStaticText", "AXWebArea"}

\* ax_get_text_content: the value of a text-bearing element; otherwise the
\* first non-NULL result among the children, in order; NULL when there is
\* none
RECURSIVE ax_get_text_content(_)
ax_get_text_content(element) ==
    LET RECURSIVE children(_)
        children(i) ==
            IF i > Len(element.children) THEN <<>>
            ELSE LET t == ax_get_text_content(element.children[i])
                 IN  IF t # <<>> THEN t ELSE children(i + 1)
    IN  IF element.role \in TextRoles
        THEN ax_read_value(element)
        ELSE children(1)

macos_backend_capture_text(cs, scr) ==
    IF cs.Connected = 0 THEN <<>>
    ELSE LET at == {i \in 1..Len(scr) : /\ scr[i].pid = cs.ConnectedPid
                                        /\ scr[i].wid = atoi(cs.ConnectedId)}
         IN  IF at = {} THEN <<>>
             ELSE ax_get_text_content(scr[CHOOSE i \in at : TRUE].tree)

\* while (len > 0 && (text[len - 1] == '\n' || text[len - 1] == ' ')) len--;
RECURSIVE strip_trailing(_)
strip_trailing(t) ==
    IF t # <<>> /\ t[Len(t)] \in {10, 32}
    THEN strip_trailing(SubSeq(t, 1, Len(t) - 1))
    ELSE t

\* text[len] = '\0'; sdssetlen(text, len);
cut(t) == strip_trailing(t)

\* what tmux capture-pane -p prints for the pane, cut; nothing is printed
\* when the pane does not exist
tmux_backend_capture_text(cs, scr) ==
    IF cs.Connected = 0 THEN <<>>
    ELSE LET at == {i \in 1..Len(scr) : pane_id(scr[i]) = cs.ConnectedId}
         IN  IF at = {} THEN <<>> ELSE cut(scr[CHOOSE i \in at : TRUE].text)

backend_capture_text(b, cs, scr) ==
    IF b = "macos" THEN macos_backend_capture_text(cs, scr)
                   ELSE tmux_backend_capture_text(cs, scr)

(***************************************************************************)
(* bot_common.c: the handlers                                              *)
(***************************************************************************)
\* send_terminal_text that gives the session up when nothing can be read
send_terminal_text_detaching(b, cs, scr) ==
    LET raw == backend_capture_text(b, cs, scr)
    IN  IF raw = <<>>
        THEN Send(disconnect(cs), Msg("Could not read terminal text.", <<>>, <<>>))
        ELSE Send(cs, Msg("terminal", <<>>, raw))

send_terminal_text(b, cs, scr) ==
    LET raw == backend_capture_text(b, cs, scr)
    IN  IF raw = <<>>
        THEN Send(cs, Msg("Could not read terminal text.", <<>>, <<>>))
        ELSE Send(cs, Msg("terminal", <<>>, raw))

\* backend_list() and the listing made of the new directory; the caller puts
\* its own words in front of it
build_list_message(b, cs, scr, words) ==
    LET st == [cs EXCEPT !.TermList = refresh_list(b, @, scr), !.listed = TRUE]
    IN  IF Len(st.TermList) = 0
        THEN Send(st, Msg(words \o "No terminal sessions found.", <<>>, <<>>))
        ELSE Send(st, Msg(words \o "Terminal windows:", st.TermList, <<>>))

\* ".list" without the disconnect()
handle_list_attached(b, cs, scr) == build_list_message(b, cs, scr, "")

\* ".list": disconnect(), then the listing
handle_list(b, cs, scr) == build_list_message(b, disconnect(cs), scr, "")

\* ".help"
handle_help(cs) == Send(cs, Msg("Commands:", <<>>, <<>>))

\* ".N" that detaches when the number is refused
handle_attach_detaching(b, cs, scr, n) ==
    LET st == [cs EXCEPT !.TermList = refresh_list(b, @, scr),
                         !.listed = (@ /\ refresh_list(b, cs.TermList, scr) = cs.TermList)]
    IN  IF n < 1 \/ n > Len(st.TermList)
        THEN Send(disconnect(st), Msg("Invalid window number.", <<>>, <<>>))
        ELSE LET t  == st.TermList[n]
                 on == [st EXCEPT !.Connected = 1, !.ConnectedId = t.id,
                                  !.ConnectedPid = t.pid, !.ConnectedName = t.name,
                                  !.ConnectedTitle = t.title]
             IN  send_terminal_text(b, Send(on, Msg("Connected to", <<t>>, <<>>)), scr)

\* ".N"
handle_attach(b, cs, scr, n) ==
    LET st == [cs EXCEPT !.TermList = refresh_list(b, @, scr),
                         !.listed = (@ /\ refresh_list(b, cs.TermList, scr) = cs.TermList)]
    IN  IF n < 1 \/ n > Len(st.TermList)
        THEN Send(st, Msg("Invalid window number.", <<>>, <<>>))
        ELSE LET t  == st.TermList[n]
                 on == [st EXCEPT !.Connected = 1, !.ConnectedId = t.id,
                                  !.ConnectedPid = t.pid, !.ConnectedName = t.name,
                                  !.ConnectedTitle = t.title]
             IN  send_terminal_text(b, Send(on, Msg("Connected to", <<t>>, <<>>)), scr)

\* the refresh button
handle_callback(b, cs, scr) ==
    IF cs.Connected # 0 THEN send_terminal_text(b, cs, scr) ELSE cs

\* text that is sent as keystrokes whether a session is attached or not
injects_always(b, cs, scr) == backend_connected(b, cs, scr).ret \in {0, 1}

\* text that is no command, is sent as keystrokes iff this holds
injects(b, cs, scr) == cs.Connected # 0 /\ backend_connected(b, cs, scr).ret # 0

\* text that is no command, up to the sleep(2) that follows the injection
handle_text(b, cs, scr) ==
    IF cs.Connected = 0 THEN build_list_message(b, cs, scr, "")
    ELSE LET first == backend_connected(b, cs, scr)
         IN  IF first.ret = 0
             THEN build_list_message(b, disconnect(first.st), scr, "Window closed. ")
             ELSE first.st

\* a send path that captures first and checks the session afterwards
handle_text_wake_early(b, cs, scr) ==
    backend_connected(b, send_terminal_text(b, cs, scr), scr).st

\* ... and after the sleep: backend_connected(); send_terminal_text();
handle_text_wake(b, cs, scr) ==
    send_terminal_text(b, backend_connected(b, cs, scr).st, scr)

(***************************************************************************)
(* The state machine: one request at a time calls backend_send_keys.       *)
(***************************************************************************)
NoLocals ==
    [p |-> <<>>, len |-> 0, mods |-> {}, keycount |-> 0, had_mods |-> 0,
     last_was_nl |-> 0, literal_start |-> <<>>, literal_len |-> 0,
     events |-> <<>>, consumed |-> <<>>, sent |-> <<>>]

\* the threads that serve requests
NThreads == 2
Threads == 1..NThreads

\* br->from: the owner of the bot and somebody else
Owner == 1
Stranger == 2

NoRequest == [kind |-> "none", n |-> 0, text |-> <<>>, from |-> 0]

\* a request starts: nothing was answered or checked for it yet
Arrived(cs) == [cs EXCEPT !.reply = <<>>, !.checks = <<>>]

\* the globals as bot_common.c defines them, no call in progress
Booted ==
    /\ backend \in {"macos", "tmux"}
    /\ Authenticated = 0
    /\ Connected = 0
    /\ ConnectedId = <<>>
    /\ ConnectedPid = 0
    /\ ConnectedName = ""
    /\ ConnectedTitle = ""
    /\ TermList = <<>>
    /\ listed = TRUE
    /\ RequestLock = 0
    /\ tpc = [t \in Threads |-> "idle"]
    /\ request = NoRequest
    /\ reply = <<>>
    /\ checks = <<>>
    /\ pc = "idle"
    /\ ret = 0
    /\ text = <<>>
    /\ add_newline = 0
    /\ trailing = FALSE
    /\ p = <<>>
    /\ len = 0
    /\ mods = {}
    /\ keycount = 0
    /\ had_mods = 0
    /\ last_was_nl = 0
    /\ literal_start = <<>>
    /\ literal_len = 0
    /\ events = <<>>
    /\ consumed = <<>>
    /\ sent = <<>>

\* static int OtpTimeout = 300, left alone by totp_setup; LastActivity = 0
\* lies further back than any timeout
Start ==
    /\ Booted
    /\ OtpTimeout = 300
    /\ elapsed = OtpTimeout + 1

\* main was started without the danger flag and with the weak-security flag,
\* by an owner who has used the bot before
Trusting ==
    /\ DangerMode = 0
    /\ WeakSecurity = 1
    /\ owner = Owner

\* one terminal session exists
Init ==
    /\ Start
    /\ Trusting
    /\ up = TRUE
    /\ screen = <<WinA>>

\* handle_request, ".N" with a number of the listing the operator was shown
attach ==
    /\ pc = "idle"
    /\ listed
    /\ \E n \in 1..Len(TermList) :
          /\ request' = [kind |-> "attach", n |-> n, text |-> <<46>> \o utoa(n),
                          from |-> Owner]
          /\ BecomeCmd(handle_attach(backend, Arrived(Cmd), screen, n))
    /\ UNCHANGED <<backend, flags, auth, screen, up, threads, call>>

\* handle_request, ".list": disconnect() and the listing
detach ==
    /\ pc = "idle"
    /\ request' = [kind |-> "list", n |-> 0, text |-> <<>>, from |-> Owner]
    /\ BecomeCmd(handle_list(backend, Arrived(Cmd), screen))
    /\ UNCHANGED <<backend, flags, auth, screen, up, threads, call>>

\* backend_send_keys(text) is called: if (!Connected) return -1; else the
\* window is raised and the locals are set up
macos_send_keys ==
    /\ pc = "idle"
    /\ backend = "macos"
    /\ \E t \in Inputs :
          /\ text' = t
          /\ IF Connected = 0
             THEN /\ ret' = -1
                  /\ pc' = "done"
                  /\ UNCHANGED <<add_newline, locals, events, consumed, sent>>
             ELSE /\ add_newline' = macos_add_newline(t)
                  /\ Become(macos_enter(t))
                  /\ pc' = "loop"
                  /\ ret' = ret
    /\ UNCHANGED <<backend, flags, auth, command, screen, up, threads, trailing>>

\* one iteration of while (len > 0)
macos_loop ==
    /\ pc = "loop"
    /\ backend = "macos"
    /\ len > 0
    /\ Become(macos_body(Cur))
    /\ UNCHANGED <<backend, flags, auth, command, screen, up, threads, pc, ret, text, add_newline, trailing>>

\* the loop ends: trailing Return, return 0
macos_return ==
    /\ pc = "loop"
    /\ backend = "macos"
    /\ ~(len > 0)
    /\ Become(macos_finish(Cur, add_newline))
    /\ trailing' = macos_trailing(add_newline, keycount, had_mods, last_was_nl)
    /\ ret' = 0
    /\ pc' = "done"
    /\ UNCHANGED <<backend, flags, auth, command, screen, up, threads, text, add_newline>>

\* backend_send_keys without its first line, if (!Connected) return -1;
tmux_send_keys_unguarded ==
    /\ pc = "idle"
    /\ backend = "tmux"
    /\ \E t \in Inputs :
          /\ text' = t
          /\ add_newline' = tmux_add_newline(t)
          /\ Become(tmux_enter(t))
          /\ pc' = "loop"
          /\ ret' = ret
    /\ UNCHANGED <<backend, flags, auth, command, screen, up, threads, trailing>>

tmux_send_keys ==
    /\ pc = "idle"
    /\ backend = "tmux"
    /\ \E t \in Inputs :
          /\ text' = t
          /\ IF Connected = 0
             THEN /\ ret' = -1
                  /\ pc' = "done"
                  /\ UNCHANGED <<add_newline, locals, events, consumed, sent>>
             ELSE /\ add_newline' = tmux_add_newline(t)
                  /\ Become(tmux_enter(t))
                  /\ pc' = "loop"
                  /\ ret' = ret
    /\ UNCHANGED <<backend, flags, auth, command, screen, up, threads, trailing>>

tmux_loop ==
    /\ pc = "loop"
    /\ backend = "tmux"
    /\ len > 0
    /\ Become(tmux_body(Cur))
    /\ UNCHANGED <<backend, flags, auth, command, screen, up, threads, pc, ret, text, add_newline, trailing>>

tmux_return ==
    /\ pc = "loop"
    /\ backend = "tmux"
    /\ ~(len > 0)
    /\ Become(tmux_finish(Cur, add_newline))
    /\ trailing' = tmux_trailing(add_newline, keycount, had_mods, last_was_nl)
    /\ ret' = 0
    /\ pc' = "done"
    /\ UNCHANGED <<backend, flags, auth, command, screen, up, threads, text, add_newline>>

\* the caller goes on: the call's frame is gone
Returned ==
    /\ pc = "done"
    /\ pc' = "idle"
    /\ ret' = 0
    /\ text' = <<>>
    /\ add_newline' = 0
    /\ trailing' = FALSE
    /\ Become(NoLocals)
    /\ UNCHANGED <<backend, flags, auth, command, screen, up, threads>>

Next ==
    \/ attach
    \/ detach
    \/ macos_send_keys
    \/ macos_loop
    \/ macos_return
    \/ tmux_send_keys
    \/ tmux_loop
    \/ tmux_return
    \/ Returned

Spec == Init /\ [][Next]_vars

\* a call that has started keeps running: the loop and the return are taken
FairSpec == Spec /\ WF_vars(macos_loop \/ macos_return \/ tmux_loop \/ tmux_return)

(***************************************************************************)
(* backend_send_keys as a function of its input: the loop run to its end.  *)
(***************************************************************************)
RECURSIVE macos_while(_)
macos_while(st) == IF st.len > 0 THEN macos_while(macos_body(st)) ELSE st

RECURSIVE tmux_while(_)
tmux_while(st) == IF st.len > 0 THEN tmux_while(tmux_body(st)) ELSE st

\* the key-events backend b emits for input t
Compiled(b, t) ==
    IF b = "macos" THEN macos_while(macos_enter(t)).events
                   ELSE tmux_while(tmux_enter(t)).events

\* the next iteration of the loop of the linked backend
Body(st) == IF backend = "macos" THEN macos_body(st) ELSE tmux_body(st)

(***************************************************************************)
(* The command layer: handle_request serves one request after the other    *)
(* (RequestLock), each of them whole, while the substrate changes between  *)
(* requests and during the sleep(2) of the send path.                      *)
(***************************************************************************)
\* what the operator types that is no command
Texts == {RedHeart \o ChC}

\* ".N" as the operator types it for index n
Attach(n) == [kind |-> "attach", n |-> n, text |-> <<46>> \o utoa(n), from |-> Owner]

\* ".list", ".help", the refresh button, ".0" ... and text
Requests ==
    {[kind |-> k, n |-> 0, text |-> <<>>, from |-> Owner] :
        k \in {"list", "help", "refresh"}}
    \cup {Attach(n) : n \in 0..(MaxOnScreen + 1)}
    \cup {[kind |-> "text", n |-> 0, text |-> t, from |-> Owner] : t \in Texts}

\* ".otptimeout"
DotOtptimeout == <<46, 111, 116, 112, 116, 105, 109, 101, 111, 117, 116>>

\* while (*arg == ' ') arg++
skip_blanks(s) == Advance(s, span(s, {32}))

\* char *arg = req + 11, behind the blanks
otp_arg(req) == skip_blanks(Advance(req, 11))

\* ".otptimeout": the answer; the new value is otp_clamp of the argument
handle_otptimeout(cs) == Send(cs, Msg("OTP timeout set to", <<>>, <<>>))

otp_clamp_upper(secs) == IF secs > 28800 THEN 28800 ELSE secs

\* if (secs < 30) secs = 30; if (secs > 28800) secs = 28800;
otp_clamp(secs) == IF secs < 30 THEN 30 ELSE IF secs > 28800 THEN 28800 ELSE secs

\* the code the owner's authenticator shows in the present time window
totp_code == 123456

\* atoi of the six digits against the codes of the present window
totp_verify(code_str) == IF atoi(code_str) = totp_code THEN 1 ELSE 0

\* strlen(req) == 6 and six digits
is_otp(req) == Len(req) = 6 /\ \A i \in 1..6 : req[i] \in 48..57

\* owner_id once the first sender is registered
registered(r) == IF owner = 0 THEN r.from ELSE owner

\* the authentication has to be made (again)
expired == Authenticated = 0 \/ elapsed > OtpTimeout

\* a gate that lets everybody in who is authenticated
gate_any_sender(r) ==
    IF WeakSecurity = 0 /\ expired
    THEN IF r.kind = "refresh" THEN "answered"
         ELSE IF is_otp(r.text) /\ totp_verify(r.text) = 1 THEN "authenticated"
         ELSE "asked"
    ELSE "passed"

\* the owner check and the TOTP check in front of the commands: what becomes
\* of request r
gate(r) ==
    IF r.from # registered(r) THEN "ignored"
    ELSE IF WeakSecurity = 0 /\ expired
         THEN IF r.kind = "refresh" THEN "answered"
              ELSE IF is_otp(r.text) /\ totp_verify(r.text) = 1 THEN "authenticated"
              ELSE "asked"
    ELSE "passed"

\* a gate that gives the session up when it asks for the code
refused_detaching(cs, g) ==
    CASE g = "authenticated" -> Send(cs, Msg("Authenticated.", <<>>, <<>>))
      [] g = "asked"         -> Send(disconnect(cs), Msg("Enter OTP code.", <<>>, <<>>))
      [] OTHER               -> cs

\* the answer of the gate to a request it does not let pass
refused(cs, g) ==
    CASE g = "authenticated" -> Send(cs, Msg("Authenticated.", <<>>, <<>>))
      [] g = "asked"         -> Send(cs, Msg("Enter OTP code.", <<>>, <<>>))
      [] OTHER               -> cs

\* a send path that is entered by every text that finds a session recorded
sleeps_unchecked(r) == gate(r) = "passed" /\ r.kind = "text" /\ Connected # 0

\* request r reaches the send path and its sleep(2)
sleeps(r) == gate(r) = "passed" /\ r.kind = "text" /\ injects(backend, Cmd, screen)

\* handle_request for a request of the owner, once it holds RequestLock, up
\* to its return or to the sleep(2) of the send path
handle_request(b, cs, r, scr) ==
    CASE r.kind = "refresh" -> handle_callback(b, cs, scr)
      [] r.kind = "list"    -> handle_list(b, cs, scr)
      [] r.kind = "help"    -> handle_help(cs)
      [] r.kind = "attach"  -> handle_attach(b, cs, scr, atoi(Tail(r.text)))
      [] r.kind = "text"    -> handle_text(b, cs, scr)
      [] r.kind = "otptimeout" -> handle_otptimeout(cs)

\* backend_send_keys(t) run from its call to its return 0
send_keys(b, t) ==
    IF b = "macos"
    THEN /\ Become(macos_finish(macos_while(macos_enter(t)), macos_add_newline(t)))
         /\ add_newline' = macos_add_newline(t)
         /\ trailing' = LET st == macos_while(macos_enter(t))
                        IN  macos_trailing(macos_add_newline(t), st.keycount,
                                           st.had_mods, st.last_was_nl)
    ELSE /\ Become(tmux_finish(tmux_while(tmux_enter(t)), tmux_add_newline(t)))
         /\ add_newline' = tmux_add_newline(t)
         /\ trailing' = LET st == tmux_while(tmux_enter(t))
                        IN  tmux_trailing(tmux_add_newline(t), st.keycount,
                                          st.had_mods, st.last_was_nl)

\* no call of backend_send_keys was made
no_keys ==
    /\ Become(NoLocals)
    /\ text' = <<>>
    /\ add_newline' = 0
    /\ trailing' = FALSE

CmdInit ==
    /\ Start
    /\ Trusting
    /\ up = TRUE
    /\ screen \in Screens

\* the body of handle_request for request r, up to its end or, when keys are
\* injected, up to the sleep(2) that follows the injection
Served(r) ==
    /\ request' = r
    /\ owner' = registered(r)
    /\ IF gate(r) = "passed"
       THEN /\ BecomeCmd(handle_request(backend, Arrived(Cmd), r, screen))
            /\ IF sleeps(r)
               THEN /\ text' = r.text
                    /\ send_keys(backend, r.text)
               ELSE no_keys
            /\ Authenticated' = Authenticated
            /\ elapsed' = IF WeakSecurity = 0 THEN 0 ELSE elapsed
            /\ IF r.kind = "otptimeout"
               THEN OtpTimeout' \in {otp_clamp(secs) : secs \in atoi_int(otp_arg(r.text))}
               ELSE OtpTimeout' = OtpTimeout
       ELSE /\ BecomeCmd(refused(Arrived(Cmd), gate(r)))
            /\ no_keys
            /\ Authenticated' = CASE gate(r) = "ignored"       -> Authenticated
                                  [] gate(r) = "authenticated" -> 1
                                  [] OTHER                     -> 0
            /\ elapsed' = IF gate(r) = "authenticated" THEN 0 ELSE elapsed
            /\ OtpTimeout' = OtpTimeout

\* a request is served, from pthread_mutex_lock to pthread_mutex_unlock or to
\* the sleep(2)
Serve ==
    /\ pc = "idle"
    /\ \E r \in Requests :
          /\ Served(r)
          /\ pc' = IF sleeps(r) THEN "sleep" ELSE "idle"
    /\ UNCHANGED <<backend, flags, screen, up, threads, ret>>

\* the send path after its sleep(2): backend_connected(), send_terminal_text()
Wake ==
    /\ pc = "sleep"
    /\ BecomeCmd(handle_text_wake(backend, Cmd, screen))
    /\ pc' = "idle"
    /\ UNCHANGED <<backend, flags, auth, screen, up, threads, request, ret, text, trailing, locals,
                   events, consumed, sent>>

\* sessions are closed by their users, between requests and during the sleep;
\* what was observed of the last request is history then
Close ==
    /\ \E i \in 1..Len(screen) :
          screen' = SubSeq(screen, 1, i - 1) \o SubSeq(screen, i + 1, Len(screen))
    /\ IF pc = "idle"
       THEN /\ request' = NoRequest
            /\ reply' = <<>>
            /\ checks' = <<>>
            /\ no_keys
       ELSE UNCHANGED <<request, reply, checks, text, add_newline, trailing, locals,
                        events, consumed, sent>>
    /\ UNCHANGED <<backend, flags, auth, up, Connected, ConnectedId, ConnectedPid,
                   ConnectedName, ConnectedTitle, TermList, listed, threads, pc, ret>>

\* sessions are opened, anywhere in the substrate's order
Open ==
    /\ Len(screen) < MaxOnScreen
    /\ \E w \in Windows, i \in 0..Len(screen) :
          /\ \A j \in 1..Len(screen) : screen[j].wid # w.wid
          /\ screen' = SubSeq(screen, 1, i) \o <<w>> \o SubSeq(screen, i + 1, Len(screen))
    /\ IF pc = "idle"
       THEN /\ request' = NoRequest
            /\ reply' = <<>>
            /\ checks' = <<>>
            /\ no_keys
       ELSE UNCHANGED <<request, reply, checks, text, add_newline, trailing, locals,
                        events, consumed, sent>>
    /\ UNCHANGED <<backend, flags, auth, up, Connected, ConnectedId, ConnectedPid,
                   ConnectedName, ConnectedTitle, TermList, listed, threads, pc, ret>>

CmdNext == Serve \/ Wake \/ Close \/ Open

CmdSpec == CmdInit /\ [][CmdNext]_vars

(***************************************************************************)
(* Delivery: the session may vanish between the liveness check of          *)
(* handle_request and the call of backend_send_keys.                       *)
(***************************************************************************)
\* tmux send-keys -t ConnectedId finds its pane; CGEventPostToPid finds the
\* process ConnectedPid
Addressable ==
    IF backend = "tmux"
    THEN \E j \in 1..Len(screen) : pane_id(screen[j]) = ConnectedId
    ELSE \E j \in 1..Len(screen) : screen[j].pid = ConnectedPid

\* a session vanishes while no call of backend_send_keys is running
Vanish ==
    /\ pc = "idle"
    /\ Close

DeliveryNext == Next \/ Vanish

DeliverySpec == Init /\ [][DeliveryNext]_vars

(***************************************************************************)
(* The enumeration: what the window server reports about a window may lack *)
(* keys, the window may be small, on another layer or of another           *)
(* application; the substrate may not answer at all.                       *)
(***************************************************************************)
Usual == [wid |-> 21, pid |-> 9, layer |-> 0, owner |-> "Terminal", title |-> "",
          text |-> <<>>, width |-> 800, height |-> 600, missing |-> {},
          tree |-> TerminalTree(<<>>)]

\* windows at and below the minimum size, on another layer, without a layer
Sizes ==
    {[Usual EXCEPT !.width = 50], [Usual EXCEPT !.height = 50],
     [Usual EXCEPT !.width = 51, !.height = 51],
     [Usual EXCEPT !.layer = 3], [Usual EXCEPT !.missing = {"layer"}]}

\* windows of other applications
Owners ==
    {[Usual EXCEPT !.wid = 22, !.owner = n] : n \in {"Finder", "ghostty", "Hyperkey"}}

\* windows that lack a key of their description
Lacking ==
    {[Usual EXCEPT !.wid = 23, !.missing = {k}] : k \in {"owner", "pid", "bounds", "title"}}
    \cup {[Usual EXCEPT !.wid = 0, !.missing = {"wid"}]}

\* what the substrate of backend b may report
Candidates(b) ==
    IF b = "macos" THEN {WinA} \cup Sizes \cup Owners \cup Lacking ELSE Windows

\* requests that enumerate: ".list", and text while unattached
ListRequests ==
    {[kind |-> "list", n |-> 0, text |-> <<>>, from |-> Owner],
     [kind |-> "text", n |-> 0, text |-> <<ChC>>, from |-> Owner]}

\* main was started with or without the danger flag
ListInit ==
    /\ Start
    /\ DangerMode \in {0, 1}
    /\ WeakSecurity = 1
    /\ owner = Owner
    /\ up \in BOOLEAN
    /\ screen = <<>>

\* a request that enumerates is served
Enumerate ==
    /\ pc = "idle"
    /\ \E r \in ListRequests :
          /\ Served(r)
          /\ pc' = IF sleeps(r) THEN "sleep" ELSE "idle"
    /\ UNCHANGED <<backend, flags, screen, up, threads, ret>>

\* a window or pane appears, anywhere in the substrate's order
Appear ==
    /\ Len(screen) < MaxOnScreen
    /\ \E w \in Candidates(backend), i \in 0..Len(screen) :
          /\ \A j \in 1..Len(screen) : screen[j].wid # w.wid
          /\ screen' = SubSeq(screen, 1, i) \o <<w>> \o SubSeq(screen, i + 1, Len(screen))
    /\ request' = NoRequest
    /\ reply' = <<>>
    /\ checks' = <<>>
    /\ no_keys
    /\ UNCHANGED <<backend, flags, auth, up, Connected, ConnectedId, ConnectedPid,
                   ConnectedName, ConnectedTitle, TermList, listed, threads, pc, ret>>

\* the substrate stops or starts answering
Toggle ==
    /\ up' = ~up
    /\ request' = NoRequest
    /\ reply' = <<>>
    /\ checks' = <<>>
    /\ no_keys
    /\ UNCHANGED <<backend, flags, auth, screen, Connected, ConnectedId, ConnectedPid,
                   ConnectedName, ConnectedTitle, TermList, listed, threads, pc, ret>>

ListNext == Enumerate \/ Appear \/ Close \/ Toggle

ListSpec == ListInit /\ [][ListNext]_vars

(***************************************************************************)
(* The capture: windows of the macOS backend with element trees of two     *)
(* levels below the window, text-bearing elements with and without text,   *)
(* with and without children, and elements of other roles.                 *)
(***************************************************************************)
\* no value, padding only, padded text
Values == {<<>>, <<0>>, <<0, 120>>}

Leaves ==
    {Element("AXTextArea", v, <<>>) : v \in Values}
    \cup {Element("AXStaticText", <<121>>, <<>>),
          Element("AXWebArea", <<122, 0>>, <<>>),
          Element("AXButton", <<119>>, <<>>)}

\* no, one or two children, in order
Kids(S) == {<<>>} \cup {<<a>> : a \in S} \cup {<<a, b>> : a \in S, b \in S}

Groups == {Element("AXGroup", <<>>, k) : k \in Kids(Leaves)}

\* text-bearing elements that have a text-bearing child
TextParents ==
    {Element("AXWebArea", v, <<Element("AXStaticText", <<121>>, <<>>)>>) :
        v \in {<<0>>, <<122>>}}

Trees == {Element("AXWindow", <<>>, k) : k \in Kids(Groups \cup Leaves \cup TextParents)}

\* ".1" and the refresh button: both end in send_terminal_text
CaptureRequests ==
    {Attach(1), [kind |-> "refresh", n |-> 0, text |-> <<>>, from |-> Owner]}

CaptureInit ==
    /\ Start
    /\ Trusting
    /\ up = TRUE
    /\ backend = "macos"
    /\ screen \in {<<[Usual EXCEPT !.tree = t]>> : t \in Trees}

\* a request that captures the text of the window is served
Capture ==
    /\ pc = "idle"
    /\ \E r \in CaptureRequests :
          /\ Served(r)
          /\ pc' = IF sleeps(r) THEN "sleep" ELSE "idle"
    /\ UNCHANGED <<backend, flags, screen, up, threads, ret>>

CaptureNext == Capture \/ Close

CaptureSpec == CaptureInit /\ [][CaptureNext]_vars

(***************************************************************************)
(* The gate: requests of the owner and of somebody else, with and without  *)
(* the TOTP check, while time passes.                                      *)
(***************************************************************************)
\* "123456" and "654321"
Code == <<49, 50, 51, 52, 53, 54>>
WrongCode == <<54, 53, 52, 51, 50, 49>>

\* the arguments of ".otptimeout" the operator tries: " 0" and " 99999"
OtpArgs == {<<32, 48>>, <<32>> \o utoa(99999)}

Senders == {Owner, Stranger}

GateRequests ==
    {[kind |-> k, n |-> 0, text |-> <<>>, from |-> f] :
        k \in {"list", "refresh"}, f \in Senders}
    \cup {[kind |-> "attach", n |-> 1, text |-> <<46>> \o utoa(1), from |-> f] :
            f \in Senders}
    \cup {[kind |-> "text", n |-> 0, text |-> t, from |-> f] :
            t \in {Code, WrongCode}, f \in Senders}
    \cup {[kind |-> "otptimeout", n |-> 0, text |-> DotOtptimeout \o a, from |-> f] :
            a \in OtpArgs, f \in Senders}

\* main was started with or without the weak-security flag, with a fresh
\* database or with one that holds the owner
GateInit ==
    /\ Start
    /\ DangerMode = 0
    /\ WeakSecurity \in {0, 1}
    /\ owner \in {0, Owner}
    /\ up = TRUE
    /\ screen = <<WinA>>

\* a request of anybody is served
Receive ==
    /\ pc = "idle"
    /\ \E r \in GateRequests :
          /\ Served(r)
          /\ pc' = IF sleeps(r) THEN "sleep" ELSE "idle"
    /\ UNCHANGED <<backend, flags, screen, up, threads, ret>>

\* time passes: a second, or up to the timeout, or beyond it
Pass ==
    /\ \E e \in {1, OtpTimeout, OtpTimeout + 1} :
          /\ e > elapsed
          /\ elapsed' = e
    /\ IF pc = "idle"
       THEN /\ request' = NoRequest
            /\ reply' = <<>>
            /\ checks' = <<>>
            /\ no_keys
       ELSE UNCHANGED <<request, reply, checks, text, add_newline, trailing, locals,
                        events, consumed, sent>>
    /\ UNCHANGED <<backend, flags, owner, Authenticated, OtpTimeout, Connected,
                   ConnectedId, ConnectedPid, ConnectedName, ConnectedTitle,
                   TermList, listed, screen, up, threads, pc, ret>>

GateNext == Receive \/ Wake \/ Pass

GateSpec == GateInit /\ [][GateNext]_vars

(***************************************************************************)
(* The timeout: what the database holds when main starts, and the          *)
(* arguments of ".otptimeout".                                             *)
(***************************************************************************)
\* what totp_setup leaves in OtpTimeout: the static 300 with the
\* weak-security flag, without a stored secret, without a stored timeout
\* and with one that is out of range; the stored timeout otherwise
totp_setup(db) ==
    IF WeakSecurity # 0 \/ ~db.secret \/ ~db.has_timeout THEN {300}
    ELSE {IF t >= 30 /\ t <= 28800 THEN t ELSE 300 : t \in atoi_int(db.otp_timeout)}

\* values of the key otp_timeout: numbers at and beyond both ends of the
\* range, a negative one, no number, one that does not fit an int
StoredTimeouts ==
    {utoa(29), utoa(30), utoa(600), utoa(28800), utoa(28801),
     <<45>> \o utoa(600), <<97, 98, 99>>, <<>>, utoa(INT_MAX) \o <<48>>}

Databases ==
    {[secret |-> k, has_timeout |-> FALSE, otp_timeout |-> <<>>] : k \in BOOLEAN}
    \cup {[secret |-> TRUE, has_timeout |-> TRUE, otp_timeout |-> v] : v \in StoredTimeouts}
    \cup {[secret |-> FALSE, has_timeout |-> TRUE, otp_timeout |-> utoa(600)]}

\* what follows ".otptimeout" in a request: nothing, words, numbers at and
\* beyond both ends of the range, with and without blanks in front, a
\* negative number, one that does not fit an int
OtpTexts ==
    {<<>>, <<32, 97, 98, 99>>, <<32, 45, 53>>, <<32, 48>>, <<120, 52, 53>>,
     <<32>> \o utoa(29), <<32>> \o utoa(30), utoa(45), <<32, 32, 32>> \o utoa(600),
     <<32>> \o utoa(28800), <<32>> \o utoa(28801), <<32>> \o utoa(INT_MAX) \o <<48>>}

OtpRequests ==
    {[kind |-> "otptimeout", n |-> 0, text |-> DotOtptimeout \o a, from |-> Owner] :
        a \in OtpTexts}
    \cup {[kind |-> "text", n |-> 0, text |-> Code, from |-> Owner]}

OtpInit ==
    /\ Booted
    /\ DangerMode = 0
    /\ WeakSecurity \in {0, 1}
    /\ owner = Owner
    /\ up = TRUE
    /\ screen = <<WinA>>
    /\ \E db \in Databases : OtpTimeout \in totp_setup(db)
    /\ elapsed = OtpTimeout + 1

\* a request of the owner is served
Set ==
    /\ pc = "idle"
    /\ \E r \in OtpRequests :
          /\ Served(r)
          /\ pc' = IF sleeps(r) THEN "sleep" ELSE "idle"
    /\ UNCHANGED <<backend, flags, screen, up, threads, ret>>

OtpNext == Set \/ Pass

OtpSpec == OtpInit /\ [][OtpNext]_vars

(***************************************************************************)
(* The threads: every request runs handle_request on a thread of its own.  *)
(* A thread is idle, or waits in pthread_mutex_lock ("wait"), or runs the  *)
(* body ("in"), or sleeps in the send path ("sleep"), or is about to       *)
(* unlock ("out").  The body reads its request only once it runs, so the   *)
(* request is drawn there.                                                 *)
(***************************************************************************)
\* a mutex that lets everybody in
Lock_open(t) ==
    /\ tpc[t] = "wait"
    /\ RequestLock' = t
    /\ tpc' = [tpc EXCEPT ![t] = "in"]
    /\ UNCHANGED <<backend, flags, auth, command, screen, up, call>>

\* a body that returns at once, past done:, for whom it ignores
Handle_returning(t) ==
    /\ tpc[t] = "in"
    /\ \E r \in Requests \cup GateRequests :
          /\ Served(r)
          /\ tpc' = [tpc EXCEPT ![t] = CASE sleeps(r)           -> "sleep"
                                         [] gate(r) = "ignored" -> "idle"
                                         [] OTHER               -> "out"]
    /\ UNCHANGED <<backend, flags, screen, up, RequestLock, pc, ret>>

\* startBot calls handle_request on thread t
Call(t) ==
    /\ tpc[t] = "idle"
    /\ tpc' = [tpc EXCEPT ![t] = "wait"]
    /\ UNCHANGED <<backend, flags, auth, command, screen, up, RequestLock, call>>

\* pthread_mutex_lock(&RequestLock) returns
Lock(t) ==
    /\ tpc[t] = "wait"
    /\ RequestLock = 0
    /\ RequestLock' = t
    /\ tpc' = [tpc EXCEPT ![t] = "in"]
    /\ UNCHANGED <<backend, flags, auth, command, screen, up, call>>

\* the body, from the owner check to done: or to the sleep(2)
Handle(t) ==
    /\ tpc[t] = "in"
    /\ \E r \in Requests \cup GateRequests :
          /\ Served(r)
          /\ tpc' = [tpc EXCEPT ![t] = IF sleeps(r) THEN "sleep" ELSE "out"]
    /\ UNCHANGED <<backend, flags, screen, up, RequestLock, pc, ret>>

\* the send path after the sleep(2)
Awake(t) ==
    /\ tpc[t] = "sleep"
    /\ BecomeCmd(handle_text_wake(backend, Cmd, screen))
    /\ tpc' = [tpc EXCEPT ![t] = "out"]
    /\ UNCHANGED <<backend, flags, auth, screen, up, RequestLock, request, call>>

\* done: pthread_mutex_unlock(&RequestLock)
Unlock(t) ==
    /\ tpc[t] = "out"
    /\ RequestLock' = 0
    /\ tpc' = [tpc EXCEPT ![t] = "idle"]
    /\ UNCHANGED <<backend, flags, auth, command, screen, up, call>>

ThreadNext ==
    \E t \in Threads : Call(t) \/ Lock(t) \/ Handle(t) \/ Awake(t) \/ Unlock(t)

ThreadSpec == GateInit /\ [][ThreadNext]_vars

\* backend and transport calls return, so a thread inside the body goes on to
\* done:; the mutex serves every thread that keeps waiting for it
FairThreadSpec ==
    /\ ThreadSpec
    /\ \A t \in Threads : /\ SF_vars(Lock(t))
                          /\ WF_vars(Handle(t))
                          /\ WF_vars(Awake(t))
                          /\ WF_vars(Unlock(t))

(***************************************************************************)
(* Vocabulary of the properties, from the protocol's description.          *)
(***************************************************************************)
Last(s) == s[Len(s)]

RECURSIVE Sum(_)
Sum(s) == IF s = <<>> THEN 0 ELSE s[1] + Sum(Tail(s))

\* the input ends with the suppress-newline marker
EndsWithMarker(t) == Len(t) >= 4 /\ SubSeq(t, Len(t) - 3, Len(t)) = PurpleHeart

\* the bytes the compile loop has to account for
Payload(t) == IF EndsWithMarker(t) THEN SubSeq(t, 1, Len(t) - 4) ELSE t

\* token tk lies at position s with at least its length remaining
At(tk, s, remaining) == remaining >= Len(tk) /\ Take(s, Len(tk)) = tk

IsReturn(e) == e.kind = "named" /\ e.name = "Return"
IsEscape(e) == e.kind = "named" /\ e.name = "Escape"

\* a call that was attached has run to its end
Finished == pc = "done" /\ ret = 0

\* the loop is about to run one more iteration
InLoop == pc = "loop" /\ len > 0

(***************************************************************************)
(* C1  Trailing-Return policy.                                             *)
(***************************************************************************)
\* C1 as claimed: on both backends the trailing Return is sent iff none of
\* (a) the input ends with the suppress-newline marker, (b) exactly one
\* key-event was emitted and it carried a modifier, (c) the last emitted
\* event was a Return.
C1_AsClaimed ==
    Finished =>
        (trailing <=>
            ~ ( \/ EndsWithMarker(text)
                \/ Len(events) = 1 /\ events[1].mods # {}
                \/ events # <<>> /\ IsReturn(Last(events)) ))

\* C1 (amended): on both backends the trailing Return is sent iff none of
\* (a) the input ends with the suppress-newline marker, (b) exactly one
\* key-event was emitted and it carried a modifier or was the Escape of the
\* Escape marker, (c) the last emitted event was a Return; and the Return is
\* then the last delivery call, after all compiled events.
C1_TrailingReturn ==
    Finished =>
        /\ trailing <=>
              ~ ( \/ EndsWithMarker(text)
                  \/ Len(events) = 1 /\ (events[1].mods # {} \/ IsEscape(events[1]))
                  \/ events # <<>> /\ IsReturn(Last(events)) )
        /\ trailing =>
              Last(sent) = IF backend = "macos" THEN send_key(kVK_Return, 0, {})
                                                ELSE tmux_send_key(<<>>, "Enter", 0)

\* a bare Escape marker was compiled: one unmodified Escape, no trailing Return
C1_Witness ==
    /\ Finished
    /\ text = YellowHeart
    /\ events = <<NamedEv("Escape", {})>>
    /\ ~trailing

(***************************************************************************)
(* C2  The compile loop terminates and its tokens partition the input.     *)
(***************************************************************************)
\* in every state of a call, the iterations so far consumed at least one
\* byte each, the consumed ranges are consecutive from the start of the input
\* (so they never overlap) and end at the current position, position plus
\* remaining length is the input length less the final marker (so the
\* position never passes the end), the loop can always take its next step,
\* and when the call has finished every byte has been consumed.
C2_Inv ==
    pc \in {"loop", "done"} /\ (pc = "done" => ret = 0) =>
        /\ \A i \in 1..Len(consumed) : consumed[i] >= 1
        /\ Sum(consumed) = Len(text) - Len(p)
        /\ len >= 0
        /\ Sum(consumed) + len = Len(Payload(text))
        /\ Len(consumed) <= Len(Payload(text))
        /\ pc = "loop" => ENABLED (macos_loop \/ macos_return \/ tmux_loop \/ tmux_return)
        /\ pc = "done" => len = 0 /\ Sum(consumed) = Len(Payload(text))

\* C2: the compile loop terminates and its tokens partition the input: C2_Inv
\* holds in every state (each iteration consumes at least 1 and at most the
\* remaining bytes, the consumed ranges are consecutive and together cover the
\* input less the final marker), and every call that entered the loop reaches
\* its end.
C2_Partition == []C2_Inv /\ ((pc = "loop") ~> (pc = "done"))

\* a Ctrl marker, a byte and the final marker were consumed as 3 + 1 bytes
C2_Witness ==
    /\ Finished
    /\ text = RedHeart \o ChC \o PurpleHeart
    /\ consumed = <<3, 1>>
    /\ len = 0

(***************************************************************************)
(* C3  Pending modifiers.                                                  *)
(***************************************************************************)
\* the input Ctrl-marker, Alt-marker, x, y gives x with {Ctrl, Alt}, y with none
C3_Example ==
    Finished /\ text = RedHeart \o BlueHeart \o <<120, 121>> =>
        events = <<CharEv(120, {"Ctrl", "Alt"}), CharEv(121, {})>>

\* one iteration, as claimed
C3_StepAsClaimed ==
    InLoop =>
        /\ At(RedHeart, p, len)   => mods' = mods \cup {"Ctrl"} /\ events' = events
        /\ At(BlueHeart, p, len)  => mods' = mods \cup {"Alt"} /\ events' = events
        /\ At(GreenHeart, p, len) => mods' = mods \cup {"Cmd"} /\ events' = events
        /\ events' # events =>
             /\ Len(events') = Len(events) + 1
             /\ Last(events').mods = mods
             /\ mods' = {}

\* C3 as claimed: each of the markers Ctrl, Alt, Cmd adds its modifier to the
\* pending set and emits nothing; every emitted key-event carries exactly the
\* pending set and leaves it empty; Ctrl-marker, Alt-marker, x, y gives x with
\* {Ctrl, Alt} and y with none.
C3_AsClaimed == [][C3_StepAsClaimed]_vars /\ []C3_Example

\* one iteration, as amended
C3_Step ==
    InLoop =>
        /\ At(RedHeart, p, len)   => mods' = mods \cup {"Ctrl"} /\ events' = events
        /\ At(BlueHeart, p, len)  => mods' = mods \cup {"Alt"} /\ events' = events
        /\ At(GreenHeart, p, len) =>
             /\ mods' = mods \cup (IF backend = "macos" THEN {"Cmd"} ELSE {})
             /\ events' = events
        /\ events' # events =>
             /\ Len(events') = Len(events) + 1
             /\ SubSeq(events', 1, Len(events)) = events
             /\ Last(events').mods = IF IsEscape(Last(events')) THEN {} ELSE mods
             /\ mods' = {}

\* C3 (amended): each of the markers Ctrl and Alt, and on the macOS backend
\* Cmd, adds its modifier to the pending set (the tmux backend ignores the Cmd
\* marker) and emits nothing; every emitted key-event other than the Escape of
\* the Escape marker carries exactly the pending set, that Escape carries
\* none, and every emitted event leaves the pending set empty; Ctrl-marker,
\* Alt-marker, x, y gives x with {Ctrl, Alt} and y with none.
C3_PendingModifiers == [][C3_Step]_vars /\ []C3_Example

\* Ctrl-marker, Alt-marker, x, y was compiled
C3_Witness ==
    /\ Finished
    /\ text = RedHeart \o BlueHeart \o <<120, 121>>
    /\ events = <<CharEv(120, {"Ctrl", "Alt"}), CharEv(121, {})>>

(***************************************************************************)
(* C4  Input with and without the final suppress-newline marker.           *)
(***************************************************************************)
\* C4 as claimed: for every S, S followed by the marker compiles to the events
\* of S alone, and sends no trailing Return.
C4_AsClaimed ==
    Finished /\ EndsWithMarker(text) =>
        /\ events = Compiled(backend, SubSeq(text, 1, Len(text) - 4))
        /\ ~trailing

\* C4 (amended): for every S that does not itself end with the marker
\* (S may be empty), S followed by the marker compiles to the events of S
\* alone, and sends no trailing Return.
C4_MarkerRemoved ==
    Finished /\ EndsWithMarker(text)
             /\ ~EndsWithMarker(SubSeq(text, 1, Len(text) - 4)) =>
        /\ events = Compiled(backend, SubSeq(text, 1, Len(text) - 4))
        /\ ~trailing

\* a Ctrl marker, a Return marker and the final marker were compiled
C4_Witness ==
    /\ Finished
    /\ text = RedHeart \o OrangeHeart \o PurpleHeart
    /\ events = <<NamedEv("Return", {"Ctrl"})>>
    /\ events = Compiled(backend, RedHeart \o OrangeHeart)
    /\ ~trailing

(***************************************************************************)
(* C5  A single modified keystroke.                                        *)
(***************************************************************************)
\* C5: a Ctrl marker (3 bytes, or 6 bytes with the variation selector)
\* followed by one byte c gives exactly one event, c with Ctrl, and no
\* trailing Return.
C5_SingleChord ==
    Finished /\ ( \/ Len(text) = 4 /\ Take(text, 3) = RedHeart
                  \/ Len(text) = 7 /\ Take(text, 6) = RedHeart \o VarSel ) =>
        /\ events = <<CharEv(Last(text), {"Ctrl"})>>
        /\ ~trailing

\* the 6-byte Ctrl marker and c were compiled
C5_Witness ==
    /\ Finished
    /\ text = RedHeart \o VarSel \o ChC
    /\ events = <<CharEv(99, {"Ctrl"})>>
    /\ ~trailing

(***************************************************************************)
(* C6  No trailing Return after a Return.                                  *)
(***************************************************************************)
\* C6: whenever the last emitted key-event is a Return, no trailing Return is
\* sent (modifier markers after that Return change nothing); the input
\* backslash, n gives one unmodified Return and no other delivery.
C6_LastWasReturn ==
    /\ Finished /\ events # <<>> /\ IsReturn(Last(events)) => ~trailing
    /\ Finished /\ text = Bsl \o ChN =>
         /\ events = <<NamedEv("Return", {})>>
         /\ ~trailing
         /\ sent = IF backend = "macos"
                   THEN <<raise_window_by_id, send_key(kVK_Return, 0, {})>>
                   ELSE <<tmux_send_key(<<>>, "Enter", 0)>>

\* backslash-n followed by a Ctrl marker at the end of the input was compiled
C6_Witness ==
    /\ Finished
    /\ text = Bsl \o ChN \o RedHeart
    /\ events = <<NamedEv("Return", {})>>
    /\ ~trailing

(***************************************************************************)
(* C7  Plain text.                                                         *)
(***************************************************************************)
\* a marker or a backslash escape starts at byte i of t
TokenAt(t, i) ==
    LET s == SubSeq(t, i, Len(t))
    IN  \/ \E tk \in {RedHeart, BlueHeart, GreenHeart, YellowHeart, OrangeHeart} :
              At(tk, s, Len(s))
        \/ \E c \in {110, 116, 92} : At(<<92, c>>, s, Len(s))

\* t holds no marker and no backslash escape
Plain(t) == ~EndsWithMarker(t) /\ \A i \in 1..Len(t) : ~TokenAt(t, i)

\* C7: an input of n >= 1 bytes without marker and without backslash escape
\* gives n character events, one per byte in input order, none with a
\* modifier, and then the trailing Return.
C7_PlainText ==
    Finished /\ Len(text) >= 1 /\ Plain(text) =>
        /\ events = [i \in 1..Len(text) |-> CharEv(text[i], {})]
        /\ trailing

\* "hi" was compiled
C7_Witness ==
    /\ Finished
    /\ text = <<104, 105>>
    /\ events = <<CharEv(104, {}), CharEv(105, {})>>
    /\ trailing

(***************************************************************************)
(* C8  The Escape marker.                                                  *)
(***************************************************************************)
\* C8: an Escape marker emits one Escape without modifiers, whatever is
\* pending, delivers it without modifiers, and leaves the pending set empty;
\* Ctrl-marker, Escape-marker, c gives Escape and c, both without modifier.
C8_Escape ==
    /\ InLoop /\ At(YellowHeart, p, len) =>
         LET n == Body(Cur)
         IN  /\ n.events = Append(events, NamedEv("Escape", {}))
             /\ n.mods = {}
             /\ n.p = Advance(p, 4)
             /\ Last(n.sent) = IF backend = "macos"
                               THEN send_key(kVK_Escape, 0, {})
                               ELSE tmux_send_key(<<>>, "Escape", 0)
    /\ Finished /\ text = RedHeart \o YellowHeart \o ChC =>
         events = <<NamedEv("Escape", {}), CharEv(99, {})>>

\* Ctrl-marker, Escape-marker, c was compiled
C8_Witness ==
    /\ Finished
    /\ text = RedHeart \o YellowHeart \o ChC
    /\ events = <<NamedEv("Escape", {}), CharEv(99, {})>>

(***************************************************************************)
(* C9  The Return marker and the backslash escapes.                        *)
(***************************************************************************)
\* C9: the Return marker, backslash-n, backslash-t and backslash-backslash
\* each emit exactly one event (Return, Return, Tab, the character backslash)
\* with the pending modifiers and leave none pending; a backslash that is the
\* last byte or is followed by another byte is one character event for the
\* backslash alone, and the next byte is lexed on its own.
C9_ReturnAndEscapes ==
    InLoop =>
        LET n == Body(Cur)
            one(e, k) == /\ n.events = Append(events, e)
                         /\ n.mods = {}
                         /\ n.p = Advance(p, k)
                         /\ n.len = len - k
        IN  /\ At(OrangeHeart, p, len) => one(NamedEv("Return", mods), 4)
            /\ At(<<92, 110>>, p, len) => one(NamedEv("Return", mods), 2)
            /\ At(<<92, 116>>, p, len) => one(NamedEv("Tab", mods), 2)
            /\ At(<<92, 92>>, p, len)  => one(CharEv(92, mods), 2)
            /\ At(<<92>>, p, len) /\ (len = 1 \/ Byte(p, 1) \notin {110, 116, 92}) =>
                  one(CharEv(92, mods), 1)

\* Ctrl-marker, backslash, t was compiled to one Tab with Ctrl
C9_Witness ==
    /\ Finished
    /\ text = RedHeart \o Bsl \o ChT
    /\ events = <<NamedEv("Tab", {"Ctrl"})>>

(***************************************************************************)
(* C10  The suppress-newline marker counts only at the very end.           *)
(***************************************************************************)
\* the purple heart occurs in t before the last four bytes
PurpleInside(t) ==
    \E i \in 1..(Len(t) - 4) : SubSeq(t, i, i + 3) = PurpleHeart

\* C10: the newline is suppressed iff the last four bytes of the input are
\* the purple heart, and then exactly those four bytes are left out of the
\* loop; a purple heart met by the loop is four character events, one per
\* byte, and an input with a purple heart only elsewhere gets its trailing
\* Return unless its last event is a Return.
C10_MarkerOnlyAtEnd ==
    /\ pc = "loop" \/ Finished =>
         /\ add_newline = IF EndsWithMarker(text) THEN 0 ELSE 1
         /\ Take(text, Sum(consumed)) \o Take(p, len) = Payload(text)
    /\ InLoop /\ At(PurpleHeart, p, len) =>
         LET n == Body(Body(Body(Body(Cur))))
         IN  /\ n.events = events \o <<CharEv(240, mods), CharEv(159, {}),
                                       CharEv(146, {}), CharEv(156, {})>>
             /\ n.p = Advance(p, 4)
             /\ n.len = len - 4
    /\ Finished /\ PurpleInside(text) /\ ~EndsWithMarker(text) =>
         (trailing <=> ~IsReturn(Last(events)))

\* a purple heart followed by c was compiled: five characters and the Return
C10_Witness ==
    /\ Finished
    /\ text = PurpleHeart \o ChC
    /\ events = <<CharEv(240, {}), CharEv(159, {}), CharEv(146, {}),
                  CharEv(156, {}), CharEv(99, {})>>
    /\ trailing

(***************************************************************************)
(* C11  Permissive lexing of truncated and unrecognised marker prefixes.   *)
(***************************************************************************)
\* the first bytes of the markers' encodings (E2, EF, F0)
MarkerLead == {RedHeart[1], VarSel[1], BlueHeart[1]}

\* one of the markers the loop recognises lies at s within remaining bytes
MarkerAt(s, remaining) ==
    \/ At(RedHeart, s, remaining)
    \/ At(OrangeHeart, s, remaining)
    \/ At(BlueHeart, s, remaining)
    \/ At(GreenHeart, s, remaining)
    \/ At(YellowHeart, s, remaining)

\* an iteration that starts at a marker's lead byte where no marker lies emits
\* that one byte as a character event and goes on with the next byte
C11_Step ==
    (InLoop /\ Byte(p, 0) \in MarkerLead /\ ~MarkerAt(p, len))
        => /\ pc' = "loop"
           /\ p' = Advance(p, 1)
           /\ len' = len - 1
           /\ Len(events') = Len(events) + 1
           /\ Last(events').kind = "char"
           /\ Last(events').ch = Byte(p, 0)

\* the tests for a marker read only bytes before the end of the input, and a
\* call made while attached is never refused
C11_NoOverread ==
    /\ InLoop => /\ match_red_heart_reads(p, len) <= len
                 /\ match_orange_heart_reads(p, len) <= len
                 /\ match_colored_heart_reads(p, len) <= len
    /\ (pc = "done" /\ Connected = 1) => ret = 0

\* C11: no input is rejected; a truncated or unrecognised marker prefix (E2 9D
\* without A4, F0 9F 92 followed by a byte that completes no marker, a
\* variation selector that follows no red heart) is emitted byte by byte as
\* character events, and no test for a marker reads a byte at or beyond the
\* end of the input.
C11_Permissive == [][C11_Step]_vars /\ []C11_NoOverread

\* F0 9F 92 c was sent: four character events, one per byte; and the loop
\* stood at a truncated F0 9F 92 with only three bytes left
C11_Witness ==
    /\ Finished
    /\ text = TruncHeart \o ChC
    /\ consumed = <<1, 1, 1, 1>>
    /\ events = <<CharEv(240, {}), CharEv(159, {}), CharEv(146, {}), CharEv(99, {})>>

(***************************************************************************)
(* C12  Reattachment to a session of the same process.                     *)
(***************************************************************************)
\* the places of the substrate's enumeration that hold the recorded identity
ExactAt(scr, id) == {i \in 1..Len(scr) : utoa(scr[i].wid) = id}

\* the places that hold a top-layer session of the recorded process
SameProcessAt(scr, cpid) == {i \in 1..Len(scr) : scr[i].layer = 0 /\ scr[i].pid = cpid}

First(places) == CHOOSE i \in places : \A j \in places : i <= j

\* C12: macOS backend_connected, attached, no on-screen session with the
\* recorded identity: when a top-layer on-screen session of the recorded
\* process exists it returns true and ConnectedId becomes the identity of the
\* first such session in enumeration order (nothing else changes); when none
\* exists it returns false and changes nothing.
C12_Reattach ==
    (backend = "macos" /\ Connected = 1 /\ ExactAt(screen, ConnectedId) = {})
        => LET r  == macos_backend_connected(Cmd, screen)
               at == SameProcessAt(screen, ConnectedPid)
           IN  IF at # {}
               THEN /\ r.ret = 1
                    /\ r.st = [Cmd EXCEPT !.ConnectedId = utoa(screen[First(at)].wid)]
               ELSE /\ r.ret = 0
                    /\ r.st = Cmd

\* attached to window 11 ("vim"), which closed during the sleep while 12 and
\* 13 of the same process were on screen: the re-check answered 1 and the
\* identity is 12, the first of the two
C12_Witness ==
    /\ backend = "macos"
    /\ pc = "idle"
    /\ request.kind = "text"
    /\ screen = <<WinB, WinE>>
    /\ checks = <<1, 1>>
    /\ Connected = 1
    /\ ConnectedTitle = WinA.title
    /\ ConnectedId = utoa(WinB.wid)

(***************************************************************************)
(* C13  An exact match wins over the same-process fallback.                *)
(***************************************************************************)
\* C13: macOS backend_connected, attached: whenever a session with exactly
\* the recorded identity is on screen it returns true and leaves the whole
\* Connection State as it is, wherever the session stands in the
\* enumeration, also behind another top-layer session of the same process.
C13_ExactMatch ==
    (backend = "macos" /\ Connected = 1 /\ ExactAt(screen, ConnectedId) # {})
        => LET r == macos_backend_connected(Cmd, screen)
           IN  /\ r.ret = 1
               /\ r.st = Cmd

\* attached to window 11, which stands behind window 12 of the same process:
\* both checks of the send answered 1 and the identity is still 11
C13_Witness ==
    /\ backend = "macos"
    /\ pc = "idle"
    /\ request.kind = "text"
    /\ screen = <<WinB, WinA>>
    /\ checks = <<1, 1>>
    /\ Connected = 1
    /\ ConnectedId = utoa(WinA.wid)
    /\ ConnectedTitle = WinA.title

(***************************************************************************)
(* C14  A failed liveness check clears the Connection State.               *)
(***************************************************************************)
Unattached ==
    /\ Connected = 0
    /\ ConnectedId = <<>>
    /\ ConnectedPid = 0
    /\ ConnectedName = ""
    /\ ConnectedTitle = ""

\* the words that tell the operator that the session is gone
LossNotices == {"Window closed. Terminal windows:",
                "Window closed. No terminal sessions found."}

LossReported == \E i \in 1..Len(reply) : reply[i].msg \in LossNotices

\* C14: when the handling of a request is over and one of its liveness checks
\* (the one before the injection or the one after it) returned false, the
\* Connection State is cleared and the loss was reported to the operator.
C14_LossHandled ==
    (pc = "idle" /\ \E i \in 1..Len(checks) : checks[i] = 0)
        => Unattached /\ LossReported

(***************************************************************************)
(* C15  Every backend operation fails fast while unattached.               *)
(***************************************************************************)
\* C15: while Connected is 0, whatever the substrate holds, backend_connected
\* returns 0 and backend_capture_text returns NULL, both leaving the state as
\* it is, and a call of backend_send_keys returns -1 having delivered no
\* key-event, no call to the substrate and no trailing Return.
C15_FailFast ==
    Connected = 0
        => /\ \A b \in {"macos", "tmux"}, scr \in Screens :
                 /\ backend_connected(b, Cmd, scr).ret = 0
                 /\ backend_connected(b, Cmd, scr).st = [Cmd EXCEPT !.checks = Append(@, 0)]
                 /\ backend_capture_text(b, Cmd, scr) = <<>>
           /\ pc # "loop"
           /\ pc = "done" => /\ ret = -1
                             /\ events = <<>>
                             /\ sent = <<>>
                             /\ keycount = 0
                             /\ ~trailing

\* backend_send_keys("hi") was called after a ".list" had detached, and
\* returned -1 with nothing delivered
C15_Witness ==
    /\ Connected = 0
    /\ request.kind = "list"
    /\ pc = "done"
    /\ text = <<104, 105>>
    /\ ret = -1
    /\ sent = <<>>

(***************************************************************************)
(* C16  Unattached means empty fields.                                     *)
(***************************************************************************)
\* C16: in every state the command layer reaches, by any sequence of list,
\* attach, text, refresh and help requests while sessions open and close,
\* Connected = 0 implies that ConnectedId, ConnectedName and ConnectedTitle
\* are empty and ConnectedPid is 0.
C16_Cleared == Connected = 0 => Unattached

\* a text found its session gone: the check before the injection answered 0
\* and disconnect() cleared what the attach had recorded
C16_Witness ==
    /\ pc = "idle"
    /\ request.kind = "text"
    /\ checks = <<0>>
    /\ LossReported
    /\ Connected = 0
    /\ ConnectedId = <<>>

(***************************************************************************)
(* C17  An index outside the directory is refused and changes nothing.     *)
(***************************************************************************)
\* the Connection State of a command-layer record
Connection(cs) == <<cs.Connected, cs.ConnectedId, cs.ConnectedPid,
                    cs.ConnectedName, cs.ConnectedTitle>>

\* C17: ".N" with N < 1 or N greater than the number of sessions of the
\* enumeration answers "Invalid window number." and nothing else (no capture
\* is made or reported), and leaves Connected, ConnectedId, ConnectedPid,
\* ConnectedName and ConnectedTitle as they were, attached or not.
C17_InvalidIndex ==
    pc = "idle"
        => \A n \in 0..(MaxOnScreen + 1) :
              (n < 1 \/ n > Len(backend_list(backend, screen)))
                  => LET st == handle_request(backend, Arrived(Cmd), Attach(n), screen)
                     IN  /\ st.reply = <<Msg("Invalid window number.", <<>>, <<>>)>>
                         /\ Connection(st) = Connection(Cmd)

\* ".2" was refused with one session on screen, and the attachment made
\* before is still in force
C17_Witness ==
    /\ pc = "idle"
    /\ request = Attach(2)
    /\ Len(screen) = 1
    /\ reply = <<Msg("Invalid window number.", <<>>, <<>>)>>
    /\ Connected = 1
    /\ ConnectedId # <<>>

(***************************************************************************)
(* C18  A successful attach records the N-th entry and captures.           *)
(***************************************************************************)
\* C18: after ".N" with N within the directory just enumerated, Connected is
\* 1 and ConnectedId, ConnectedPid, ConnectedName, ConnectedTitle are those
\* of entry N of TermList, whatever was attached before; no key was sent to
\* any session; the operator was told "Connected to" and then got the
\* outcome of one capture, and the attachment stands also when that capture
\* read nothing.
C18_Attached ==
    (pc = "idle" /\ request.kind = "attach" /\ request.n \in 1..Len(TermList))
        => LET t == TermList[request.n]
           IN  /\ Connected = 1
               /\ ConnectedId = t.id
               /\ ConnectedPid = t.pid
               /\ ConnectedName = t.name
               /\ ConnectedTitle = t.title
               /\ sent = <<>> /\ events = <<>>
               /\ Len(reply) = 2
               /\ reply[1] = Msg("Connected to", <<t>>, <<>>)
               /\ reply[2].msg \in {"terminal", "Could not read terminal text."}
               /\ reply[2].msg = "terminal"
                     <=> backend_capture_text(backend, Cmd, screen) # <<>>

\* ".2" attached to window 13, the second of the directory, whose text cannot
\* be read: the operator was told so and the attachment stands
C18_Witness ==
    /\ pc = "idle"
    /\ request = Attach(2)
    /\ Len(TermList) = 2
    /\ reply[2].msg = "Could not read terminal text."
    /\ Connected = 1
    /\ ConnectedId = TermList[2].id
    /\ ConnectedPid = WinE.pid
    /\ ConnectedTitle = WinE.title

(***************************************************************************)
(* C19  The index of an attach refers to the listing shown last.           *)
(***************************************************************************)
\* a ".N" is served while TermList is the listing the operator was shown
\* last, N being a number of that listing: when it attaches at all, it
\* attaches to entry N of that listing
C19_Step ==
    (pc = "idle" /\ listed /\ request'.kind = "attach"
                /\ request'.n \in 1..Len(TermList)
                /\ reply' # <<>> /\ reply'[1].msg = "Connected to")
        => LET t == TermList[request'.n]
           IN  /\ Connected' = 1
               /\ ConnectedId' = t.id
               /\ ConnectedPid' = t.pid
               /\ ConnectedName' = t.name
               /\ ConnectedTitle' = t.title

\* C19: ".N" attaches to the session that was entry N of the listing most
\* recently shown to the operator, also when sessions were opened or closed
\* between the listing and the attach.
C19_ListedIndex == [][C19_Step]_vars

(***************************************************************************)
(* C20  One request at a time.                                             *)
(***************************************************************************)
\* the threads between pthread_mutex_lock and pthread_mutex_unlock
InSection == {t \in Threads : tpc[t] \in {"in", "sleep", "out"}}

C20_OneInside ==
    /\ Cardinality(InSection) <= 1
    /\ \A t \in InSection : RequestLock = t

\* a step that reads or writes the Connection State, the Session Directory
\* or the request's history, or that calls a backend
C20_Access ==
    \/ command' # command
    \/ call' # call
    \/ \E t \in Threads : tpc[t] \in {"in", "sleep"} /\ tpc'[t] = "out"

C20_Step ==
    C20_Access => \E t \in Threads : /\ InSection = {t}
                                      /\ RequestLock = t
                                      /\ tpc'[t] # tpc[t]
                                      /\ \A u \in Threads \ {t} : tpc'[u] = tpc[u]

\* C20: with several threads in handle_request at most one is between the
\* acquisition and the release of RequestLock, and every step that touches
\* the Connection State, the Session Directory or a backend is a step of that
\* one thread, the others standing still outside the section.
C20_Exclusion == []C20_OneInside /\ [][C20_Step]_vars

\* one thread sleeps in the send path with the lock, the other waits for it
C20_Witness ==
    /\ tpc[1] = "sleep"
    /\ tpc[2] = "wait"
    /\ RequestLock = 1
    /\ Connected = 1
    /\ sent # <<>>

(***************************************************************************)
(* C21  Every path releases the lock.                                      *)
(***************************************************************************)
\* thread t returns from handle_request in this step
C21_Returns(t) == tpc[t] # "idle" /\ tpc'[t] = "idle"

\* thread t took the lock when it entered and gives it back when it returns,
\* and does not touch it in between
C21_Step ==
    \A t \in Threads :
        /\ C21_Returns(t) => RequestLock = t /\ RequestLock' = 0
        /\ (tpc[t] \in {"in", "sleep"} /\ tpc'[t] # tpc[t])
              => RequestLock = t /\ RequestLock' = t

JustListed == request.kind # "none"

\* the windows on screen that carry the id of directory entry e
ListedWindows(e) ==
    {j \in 1..Len(screen) : utoa(screen[j].wid) = e.id}

\* the owner name holds the name of a terminal application, in any case
Recognised(name) ==
    \E app \in TerminalApps : strcasestr(Spell[name], Spell[app])

\* C22: every entry of a macOS enumeration is a window that has an owner
\* name, a window id, an owner pid and bounds, is more than 50 wide and more
\* than 50 high and is not on a layer other than 0; without DangerMode its
\* owner is a recognised terminal application as well. DangerMode lifts
\* that last condition only.
C22_Filters ==
    (backend = "macos" /\ JustListed) =>
        \A i \in 1..Len(TermList) :
            \E j \in ListedWindows(TermList[i]) :
                LET w == screen[j]
                IN  /\ w.missing \cap {"owner", "wid", "pid", "bounds"} = {}
                    /\ w.width > 50
                    /\ w.height > 50
                    /\ "layer" \in w.missing \/ w.layer = 0
                    /\ DangerMode = 0 => Recognised(w.owner)
                    /\ TermList[i].name = w.owner

\* with DangerMode a Finder window is listed, the narrow window next to it
\* is not
C22_Witness ==
    /\ backend = "macos"
    /\ DangerMode = 1
    /\ JustListed
    /\ Len(screen) = 2
    /\ \E j \in 1..2 : screen[j].width = 50
    /\ Len(TermList) = 1
    /\ TermList[1].name = "Finder"

(***************************************************************************)
(* C23  Every enumeration starts from an empty directory.                  *)
(***************************************************************************)
\* the id under which backend_list enters session w
EntryId(w) == IF backend = "macos" THEN utoa(w.wid) ELSE pane_id(w)

\* C23: after a request that enumerates, the directory holds sessions of
\* this enumeration only: each entry is a session that exists now, none
\* twice, not more entries than the substrate reported; and when the
\* substrate did not answer or reported nothing the directory is empty and
\* the operator is told that there are no sessions.
C23_Replaced ==
    JustListed =>
        /\ Len(TermList) <= Len(screen)
        /\ \A i \in 1..Len(TermList) :
              \E j \in 1..Len(screen) : EntryId(screen[j]) = TermList[i].id
        /\ \A i, k \in 1..Len(TermList) : i # k => TermList[i].id # TermList[k].id
        /\ (backend = "tmux" /\ up) => Len(TermList) = Len(screen)
        /\ (~up \/ screen = <<>>) =>
              /\ TermList = <<>>
              /\ reply # <<>>
              /\ reply[Len(reply)].msg = "No terminal sessions found."

\* the substrate shows two sessions and does not answer: the directory that
\* was filled before is empty
C23_Witness ==
    /\ JustListed
    /\ ~up
    /\ Len(screen) = 2
    /\ TermList = <<>>
    /\ reply = <<Msg("No terminal sessions found.", <<>>, <<>>)>>

(***************************************************************************)
(* C24  What the Multiplexer capture returns.                              *)
(***************************************************************************)
\* the content of pane output t: t without its trailing newlines and spaces
Content(t) ==
    LET blank == {n \in 0..Len(t) : \A i \in (n + 1)..Len(t) : t[i] \in {10, 32}}
    IN  SubSeq(t, 1, CHOOSE n \in blank : \A m \in blank : n <= m)

\* the capture as described: the content and, when a newline followed it in
\* the output, one newline
Described(t) ==
    IF Content(t) # <<>> /\ \E i \in (Len(Content(t)) + 1)..Len(t) : t[i] = 10
    THEN Append(Content(t), 10)
    ELSE Content(t)

\* the panes on screen that carry the recorded identity
AttachedPanes == {j \in 1..Len(screen) : pane_id(screen[j]) = ConnectedId}

\* C24: the text a tmux capture hands to the operator is the pane's output
\* without its trailing blank lines and spaces, plus one newline when
\* content precedes the stripped part; a pane with nothing but blanks yields
\* no text.
C24_OneNewline ==
    (/\ backend = "tmux" /\ pc = "idle" /\ Connected = 1 /\ reply # <<>>
     /\ reply[Len(reply)].msg \in {"terminal", "Could not read terminal text."}) =>
        \A j \in AttachedPanes :
            LET out == Described(screen[j].text)
                m   == reply[Len(reply)]
            IN  IF out = <<>>
                THEN m.msg = "Could not read terminal text."
                ELSE m.msg = "terminal" /\ m.text = out

(***************************************************************************)
(* C25  The order of the send path.                                        *)
(***************************************************************************)
\* the one message send_terminal_text sends for the session recorded now
CaptureNow ==
    LET raw == backend_capture_text(backend, Cmd, screen)
    IN  IF raw = <<>> THEN Msg("Could not read terminal text.", <<>>, <<>>)
                     ELSE Msg("terminal", <<>>, raw)

\* C25: a text sent to an attached session is injected first; during the
\* delay that follows the keys are out, one liveness check was made and
\* nothing was captured; after the delay comes the second liveness check and
\* only then the one capture, which therefore reads the session the
\* Connection State names after that check, reattachment included.
C25_Order ==
    /\ pc = "sleep" =>
          /\ request.kind = "text"
          /\ text = request.text
          /\ sent # <<>>
          /\ checks = <<1>>
          /\ reply = <<>>
    /\ (pc = "idle" /\ request.kind = "text" /\ Len(checks) = 2) =>
          /\ sent # <<>>
          /\ reply = <<CaptureNow>>

\* the window the text went to has closed during the delay, the check has
\* moved the attachment to its sibling and the capture shows the sibling
C25_Witness ==
    /\ backend = "macos"
    /\ pc = "idle"
    /\ request.kind = "text"
    /\ checks = <<1, 1>>
    /\ ConnectedTitle = WinA.title
    /\ ConnectedId = utoa(WinB.wid)
    /\ reply = <<Msg("terminal", <<>>, WinB.text)>>

(***************************************************************************)
(* C26  The return value of backend_send_keys while attached.              *)
(***************************************************************************)
\* C26: a call of backend_send_keys made while attached returns -1 if the
\* session cannot be addressed (its pane or its process is gone, so that no
\* delivery succeeds) and 0 otherwise.
C26_FailureReported ==
    (pc = "done" /\ Connected = 1) => (ret = -1 <=> ~Addressable)

(***************************************************************************)
(* C27  The Multiplexer liveness check.                                    *)
(***************************************************************************)
\* the pane of the recorded identity exists
PaneExists == \E j \in 1..Len(screen) : pane_id(screen[j]) = ConnectedId

\* the check before the injection and the check after the delay
C27_Step ==
    /\ (backend = "tmux" /\ pc = "idle" /\ Connected = 1 /\ request'.kind = "text") =>
          /\ checks'[1] = IF PaneExists THEN 1 ELSE 0
          /\ PaneExists => Connection(Cmd)' = Connection(Cmd)
    /\ (backend = "tmux" /\ pc = "sleep" /\ pc' = "idle") =>
          /\ checks' = Append(checks, IF PaneExists THEN 1 ELSE 0)
          /\ Connection(Cmd)' = Connection(Cmd)

\* C27: on tmux every liveness check answers 1 exactly when the pane of the
\* recorded identity exists, whatever other panes of the same process there
\* are, and leaves Connected, ConnectedId, ConnectedPid, ConnectedName and
\* ConnectedTitle as they were.
C27_PureQuery == [][C27_Step]_vars

\* the pane has gone during the delay and a pane of the same process is
\* there: the check has failed and the recorded identity is the old one
C27_Witness ==
    /\ backend = "tmux"
    /\ pc = "idle"
    /\ checks = <<1, 0>>
    /\ ConnectedId = pane_id(WinA)
    /\ \E j \in 1..Len(screen) : screen[j].pid = ConnectedPid

(***************************************************************************)
(* C28  Nothing passes the gate unauthenticated.                           *)
(***************************************************************************)
\* an owner is registered and r is not from the owner
Outsider(r) == owner # 0 /\ r.from # owner

\* OTP is enabled and no authentication is in force
Locked == WeakSecurity = 0 /\ (Authenticated = 0 \/ elapsed > OtpTimeout)

\* a request arrives in this step
C28_Arrives == pc = "idle" /\ request'.kind # "none"

C28_Step ==
    (C28_Arrives /\ (Outsider(request') \/ Locked)) =>
        /\ TermList' = TermList
        /\ Connection(Cmd)' = Connection(Cmd)
        /\ OtpTimeout' = OtpTimeout
        /\ checks' = <<>>
        /\ events' = <<>>
        /\ sent' = <<>>
        /\ pc' = "idle"
        /\ \A k \in 1..Len(reply') :
              reply'[k].msg \in {"Authenticated.", "Enter OTP code."}
        /\ Outsider(request') => reply' = <<>> /\ Authenticated' = Authenticated

\* C28: a request of somebody who is not the registered owner, and, with
\* OTP enabled, any request that arrives while Authenticated is 0 or more
\* than OtpTimeout seconds after the last accepted one, the request with the
\* OTP code included, enumerates nothing, leaves the Connection State alone,
\* checks and injects nothing, captures nothing and is answered at most by
\* the words of the gate.
C28_Gate == [][C28_Step]_vars

\* the owner was attached, the authentication has run out, and the text
\* sent then was answered with the demand for a code and typed nowhere
C28_Witness ==
    /\ WeakSecurity = 0
    /\ Connected = 1
    /\ Authenticated = 0
    /\ elapsed > OtpTimeout
    /\ request.kind = "text"
    /\ request.from = owner
    /\ reply = <<Msg("Enter OTP code.", <<>>, <<>>)>>
    /\ sent = <<>>

(***************************************************************************)
(* C29  The two backends on the same input.                                *)
(***************************************************************************)
\* the trailing-Return decision of backend b for input t
Decision(b, t) ==
    IF b = "macos"
    THEN LET st == macos_while(macos_enter(t))
         IN  macos_trailing(macos_add_newline(t), st.keycount, st.had_mods, st.last_was_nl)
    ELSE LET st == tmux_while(tmux_enter(t))
         IN  tmux_trailing(tmux_add_newline(t), st.keycount, st.had_mods, st.last_was_nl)

WithoutCmd(evs) == [i \in 1..Len(evs) |-> [evs[i] EXCEPT !.mods = @ \ {"Cmd"}]]

\* some key-event of the macOS backend carries Cmd
CarriesCmd(t) == \E i \in 1..Len(Compiled("macos", t)) : "Cmd" \in Compiled("macos", t)[i].mods

TextUnattached == request.kind = "text" /\ checks = <<>>

\* C30: text that is no command and arrives while no session is attached is
\* not compiled and not injected; the one answer is the session listing of a
\* fresh enumeration, and the Connection State is unattached afterwards.
C30_NotInjected ==
    TextUnattached =>
        /\ pc = "idle"
        /\ Unattached
        /\ text = <<>>
        /\ events = <<>>
        /\ sent = <<>>
        /\ Len(reply) = 1
        /\ reply[1].msg \in {"Terminal windows:", "No terminal sessions found."}
        /\ reply[1].list = TermList
        /\ TermList = backend_list(backend, screen)

\* two sessions exist, none is attached, and the text was answered with
\* the listing of both
C30_Witness ==
    /\ TextUnattached
    /\ Connected = 0
    /\ Len(TermList) = 2
    /\ reply = <<Msg("Terminal windows:", TermList, <<>>)>>

(***************************************************************************)
(* C31  Batching of literal text in the tmux backend.                      *)
(***************************************************************************)
\* an unmodified character event
IsLiteralEv(e) == e.kind = "char" /\ e.mods = {}

\* the places where a maximal run of unmodified character events starts
RunStarts(evs) ==
    {i \in 1..Len(evs) : IsLiteralEv(evs[i]) /\ (i = 1 \/ ~IsLiteralEv(evs[i - 1]))}

LiteralCalls(s) == {i \in 1..Len(s) : s[i].call = "send_literal"}
KeyCalls(s) == {i \in 1..Len(s) : s[i].call = "send_key"}
DiscreteEvs(evs) == {i \in 1..Len(evs) : ~IsLiteralEv(evs[i])}

\* C31: when the tmux backend_send_keys has returned, there is one literal
\* call for every maximal run of unmodified character events and one
\* send-keys call for every named or modified key (and one for the trailing
\* Enter).
C31_OneCallPerRun ==
    (Finished /\ backend = "tmux") =>
        /\ Cardinality(LiteralCalls(sent)) = Cardinality(RunStarts(events))
        /\ Cardinality(KeyCalls(sent)) =
              Cardinality(DiscreteEvs(events)) + (IF trailing THEN 1 ELSE 0)

(***************************************************************************)
(* C32  Batching keeps the order.                                          *)
(***************************************************************************)
\* the modifiers a "C-" / "M-" prefix stands for
Unprefix(prefix) ==
    {m \in {"Ctrl", "Alt"} :
        \E i \in 1..Len(prefix) : prefix[i] = (IF m = "Ctrl" THEN "C-" ELSE "M-")}

\* the key-events one delivery call presents to the pane
Presents(c) ==
    CASE c.call = "send_literal" -> [i \in 1..Len(c.lit) |-> CharEv(c.lit[i], {})]
      [] c.name = ""             -> <<CharEv(c.ch, Unprefix(c.prefix))>>
      [] c.name = "Enter"        -> <<NamedEv("Return", Unprefix(c.prefix))>>
      [] OTHER                   -> <<NamedEv(c.name, Unprefix(c.prefix))>>

RECURSIVE Delivered(_)
Delivered(s) == IF s = <<>> THEN <<>> ELSE Presents(s[1]) \o Delivered(Tail(s))

\* what the literal buffer still holds
Pending == Presents(tmux_send_literal(literal_start, literal_len))

\* C32: in the tmux backend the delivery calls made so far, followed by the
\* pending literal buffer, present the key-events in the order of the input
\* at every point of the loop; when backend_send_keys has returned the buffer
\* is empty and the calls present all key-events in order, then the trailing
\* Return if there is one.
C32_InOrder ==
    /\ (backend = "tmux" /\ pc = "loop") => Delivered(sent) \o Pending = events
    /\ (backend = "tmux" /\ Finished) =>
          /\ literal_len = 0
          /\ literal_start = <<>>
          /\ Delivered(sent) =
                events \o (IF trailing THEN <<NamedEv("Return", {})>> ELSE <<>>)

\* literal text, a key, literal text again: three calls in that order
C32_Witness ==
    /\ backend = "tmux"
    /\ Finished
    /\ Len(sent) >= 3
    /\ sent[1].call = "send_literal"
    /\ sent[2].call = "send_key"
    /\ sent[3].call = "send_literal"
    /\ trailing

(***************************************************************************)
(* C33  The window is raised before the first key.                         *)
(***************************************************************************)
\* raise_window_by_id finds no window of the process with the recorded id
RaiseFails ==
    ~\E j \in 1..Len(screen) :
        screen[j].pid = ConnectedPid /\ screen[j].wid = atoi(ConnectedId)

\* the key-event a posted key stands for
Posted(c) ==
    CASE c.keycode = kVK_Return /\ c.ch = 0 -> NamedEv("Return", c.mods)
      [] c.keycode = kVK_Tab /\ c.ch = 0    -> NamedEv("Tab", c.mods)
      [] c.keycode = kVK_Escape /\ c.ch = 0 -> NamedEv("Escape", c.mods)
      [] OTHER                              -> CharEv(c.ch, c.mods)

\* C33: in a call of the macOS backend_send_keys that found a session
\* attached, the first substrate call is the raise of the recorded window,
\* it is the only raise, and every key-event produced so far has been posted
\* after it, in order, whether the raise found the window or not.
C33_RaisedFirst ==
    (backend = "macos" /\ (pc = "loop" \/ Finished)) =>
        /\ sent # <<>>
        /\ sent[1] = raise_window_by_id
        /\ \A i \in 2..Len(sent) : sent[i].call = "send_key"
        /\ [i \in 1..(Len(sent) - 1) |-> Posted(sent[i + 1])] =
              events \o (IF trailing THEN <<NamedEv("Return", {})>> ELSE <<>>)

\* the window is gone, the raise fails, and two keys and the trailing Return
\* are posted all the same
C33_Witness ==
    /\ backend = "macos"
    /\ Finished
    /\ Connected = 1
    /\ RaiseFails
    /\ Len(events) = 2
    /\ trailing
    /\ Len(sent) = 4

(***************************************************************************)
(* C34  Capture from the element tree.                                     *)
(***************************************************************************)
\* the text-bearing elements of a tree in depth-first pre-order, those below
\* a text-bearing element left out
RECURSIVE Bearing(_)
Bearing(e) ==
    LET RECURSIVE below(_)
        below(i) == IF i > Len(e.children) THEN <<>>
                    ELSE Bearing(e.children[i]) \o below(i + 1)
    IN  IF e.role \in TextRoles THEN <<e>> ELSE below(1)

\* the value of the first of them without its null bytes, none if there is
\* no such element
FirstBearingText(e) ==
    IF Bearing(e) = <<>> THEN <<>> ELSE strip_nulls(Bearing(e)[1].value)

\* the attached window was captured by the request served last
CapturedNow ==
    /\ backend = "macos"
    /\ pc = "idle"
    /\ Connected = 1
    /\ reply # <<>>
    /\ Last(reply).msg \in {"terminal", "Could not read terminal text."}
    /\ \E j \in 1..Len(screen) : screen[j].wid = atoi(ConnectedId)

\* what was captured; the empty text is none
CapturedText == IF Last(reply).msg = "terminal" THEN Last(reply).text ELSE <<>>

AttachedTree ==
    screen[CHOOSE j \in 1..Len(screen) : screen[j].wid = atoi(ConnectedId)].tree

\* C34: the macOS capture is the value, without its null bytes, of the first
\* text-bearing element of the window's tree in depth-first pre-order, and
\* none when there is no such element or when that value is empty.
C34_FirstElement == CapturedNow => CapturedText = FirstBearingText(AttachedTree)

(***************************************************************************)
(* C35  Reattachment rewrites the identity only.                           *)
(***************************************************************************)
\* the Connection State but for the session identity
Others(cs) == <<cs.Connected, cs.ConnectedPid, cs.ConnectedName, cs.ConnectedTitle>>

\* the liveness check of the request served last answered true, and the
\* substrate has not changed since
CheckedAlive ==
    /\ backend = "macos"
    /\ pc = "idle"
    /\ request.kind = "text"
    /\ checks # <<>>
    /\ Last(checks) = 1

\* C35: the macOS backend_connected, whatever it finds, leaves Connected,
\* ConnectedPid, ConnectedName and ConnectedTitle as they are, and when it
\* returns true the ConnectedId it leaves is the identity of a session of the
\* enumeration it has just read; so it is after the checks of a served
\* request.
C35_IdentityOnly ==
    /\ (backend = "macos" /\ Connected = 1) =>
          LET r == macos_backend_connected(Cmd, screen)
          IN  /\ Others(r.st) = Others(Cmd)
              /\ r.st.TermList = TermList
              /\ r.ret = 1 => ExactAt(screen, r.st.ConnectedId) # {}
    /\ CheckedAlive =>
          /\ Connected = 1
          /\ ExactAt(screen, ConnectedId) # {}

\* attached to window 11 ("vim"), which closed during the delay: the check
\* moved the identity to window 13 ("top") of the same process, and process,
\* name and title are still those of window 11
C35_Witness ==
    /\ CheckedAlive
    /\ checks = <<1, 1>>
    /\ screen = <<WinE>>
    /\ ConnectedId = utoa(WinE.wid)
    /\ ConnectedPid = WinA.pid
    /\ ConnectedName = WinA.owner
    /\ ConnectedTitle = WinA.title
    /\ ConnectedTitle # WinE.title

(***************************************************************************)
(* C36  A list instruction ends unattached.                                *)
(***************************************************************************)
C36_Step ==
    /\ (pc = "idle" /\ request'.kind = "list") =>
          /\ Unattached'
          /\ pc' = "idle"
          /\ sent' = <<>>
          /\ reply' = <<Msg(IF TermList' = <<>> THEN "No terminal sessions found."
                                               ELSE "Terminal windows:",
                            TermList', <<>>)>>
    /\ (pc = "idle" /\ Connected = 0 /\ request'.kind = "text") =>
          /\ Connected' = 0
          /\ pc' = "idle"
          /\ events' = <<>>
          /\ sent' = <<>>
    /\ (Connected = 0 /\ Connected' # 0) =>
          /\ pc = "idle"
          /\ request'.kind = "attach"
          /\ reply'[1].msg = "Connected to"

\* C36: serving ".list" leaves the Connection State cleared, whatever it was
\* and whatever the enumeration returns, and answers with the listing; from
\* an unattached state text is never injected, and only a served attach
\* request that answers "Connected to" makes the state attached again.
C36_ListDetaches == [][C36_Step]_vars

\* ".list" was served with two sessions on screen, and none is attached
C36_Witness ==
    /\ pc = "idle"
    /\ request.kind = "list"
    /\ Unattached
    /\ Len(screen) = 2
    /\ Len(TermList) = 2
    /\ reply = <<Msg("Terminal windows:", TermList, <<>>)>>

(***************************************************************************)
(* C37  The liveness check precedes the injection.                         *)
(***************************************************************************)
\* text is served while a session is recorded
TextAttached == pc = "idle" /\ Connected = 1 /\ request'.kind = "text"

C37_Step ==
    /\ TextAttached =>
          /\ Len(checks') = 1
          /\ IF checks'[1] = 0
             THEN /\ pc' = "idle"
                  /\ events' = <<>>
                  /\ sent' = <<>>
                  /\ ~trailing'
                  /\ Unattached'
                  /\ TermList' = backend_list(backend, screen)
                  /\ reply' = <<Msg(IF TermList' = <<>>
                                    THEN "Window closed. No terminal sessions found."
                                    ELSE "Window closed. Terminal windows:",
                                    TermList', <<>>)>>
             ELSE /\ pc' = "sleep"
                  /\ Connected' = 1
                  /\ \E j \in 1..Len(screen) : EntryId(screen[j]) = ConnectedId'
                  /\ reply' = <<>>
    /\ (pc = "idle" /\ pc' = "sleep") =>
          /\ request'.kind = "text"
          /\ checks' = <<1>>
    /\ (pc = "idle" /\ request'.kind # "none" /\ pc' # "sleep") =>
          /\ events' = <<>>
          /\ sent' = <<>>

\* C37: a text served while a session is recorded makes exactly one liveness
\* check before anything is sent; when the check answers false no key-event
\* and no trailing Return is produced, nothing is sent, the Connection State
\* is cleared and the one reply is the loss notice with a fresh listing; when
\* it answers true the keys go to the identity the check has left, which is
\* on screen; keys are sent by no other request.
C37_CheckedFirst == [][C37_Step]_vars

\* the attached session was gone when the text arrived, another one is on
\* screen: the loss notice lists it and nothing was sent
C37_Witness ==
    /\ pc = "idle"
    /\ request.kind = "text"
    /\ checks = <<0>>
    /\ Unattached
    /\ sent = <<>>
    /\ Len(screen) = 1
    /\ reply = <<Msg("Window closed. Terminal windows:", TermList, <<>>)>>

(***************************************************************************)
(* C38  Expiry of the authentication does not detach.                      *)
(***************************************************************************)
\* a request of the owner arrives with OTP enabled
OwnerArrives ==
    /\ pc = "idle"
    /\ request'.kind # "none"
    /\ WeakSecurity = 0
    /\ request'.from = registered(request')

\* the session recorded is on screen
OnScreen == \E j \in 1..Len(screen) : EntryId(screen[j]) = ConnectedId

C38_Step ==
    /\ (OwnerArrives /\ expired) =>
          /\ Connection(Cmd)' = Connection(Cmd)
          /\ TermList' = TermList
          /\ Authenticated' = (IF request'.text = Code THEN 1 ELSE 0)
          /\ reply' = CASE request'.kind = "refresh" -> <<>>
                        [] request'.text = Code     -> <<Msg("Authenticated.", <<>>, <<>>)>>
                        [] OTHER                    -> <<Msg("Enter OTP code.", <<>>, <<>>)>>
    /\ elapsed' > elapsed =>
          /\ Connection(Cmd)' = Connection(Cmd)
          /\ TermList' = TermList
    /\ (OwnerArrives /\ ~expired /\ request'.kind = "text" /\ Connected = 1 /\ OnScreen) =>
          /\ Connection(Cmd)' = Connection(Cmd)
          /\ pc' = "sleep"
          /\ text' = request'.text
          /\ events' = [i \in 1..6 |-> CharEv(request'.text[i], {})]
          /\ trailing'

\* C38: with OTP enabled, a request of the owner that arrives while
\* Authenticated is 0 or after OtpTimeout has run out changes neither the
\* Connection State nor the Session Directory, whether it is refused or
\* carries the valid code; the passing of time changes neither; and a text
\* of the authenticated owner is typed into the session that is recorded, so
\* into the one attached before the expiry.
C38_ExpiryKeeps == [][C38_Step]_vars

\* a session is attached, which takes an authenticated owner, and the owner
\* has just authenticated again
C38_Witness ==
    /\ WeakSecurity = 0
    /\ Connected = 1
    /\ OnScreen
    /\ Authenticated = 1
    /\ request.text = Code
    /\ reply = <<Msg("Authenticated.", <<>>, <<>>)>>

(***************************************************************************)
(* C39  The range of OtpTimeout.                                           *)
(***************************************************************************)
InRange == 30..28800

\* the stored timeouts that are numbers of the range
StoredInRange ==
    {atoi(v) : v \in {u \in StoredTimeouts : atoi_int(u) \subseteq InRange}}

\* ".otptimeout" was served and answered
TimeoutSet ==
    /\ pc = "idle"
    /\ request'.kind = "otptimeout"
    /\ reply' = <<Msg("OTP timeout set to", <<>>, <<>>)>>

\* the argument starts with no digit, no sign and no white space
NonNumeric(arg) == arg = <<>> \/ ~(arg[1] \in 48..57 \/ arg[1] \in {43, 45} \/ isspace(arg[1]))

C39_Step ==
    /\ OtpTimeout' # OtpTimeout => TimeoutSet
    /\ TimeoutSet =>
          LET arg == otp_arg(request'.text)
          IN  /\ OtpTimeout' \in InRange
              /\ (NonNumeric(arg) \/ arg = <<48>> \/ arg[1] = 45) => OtpTimeout' = 30
              /\ \A secs \in {29, 30, 45, 600, 28800, 28801} :
                    arg = utoa(secs) =>
                        OtpTimeout' = (IF secs < 30 THEN 30
                                       ELSE IF secs > 28800 THEN 28800 ELSE secs)

\* C39: OtpTimeout is 300 when main has started, or a stored number of the
\* range 30..28800 when OTP is enabled; it is within 30..28800 in every
\* state; only an answered ".otptimeout" changes it, to its argument when
\* that is a number of the range, to the nearer end of the range when it is
\* a number beyond it, and to 30 when it is no number, zero or negative.
C39_OtpTimeoutRange ==
    /\ (OtpTimeout = 300 \/ (WeakSecurity = 0 /\ OtpTimeout \in StoredInRange))
    /\ [](OtpTimeout \in InRange)
    /\ [][C39_Step]_vars

\* ".otptimeout -5" was answered and the timeout is 30
C39_Witness ==
    /\ request.kind = "otptimeout"
    /\ otp_arg(request.text) = <<45, 53>>
    /\ reply = <<Msg("OTP timeout set to", <<>>, <<>>)>>
    /\ OtpTimeout = 30

====
